---- MODULE Spec2Model ----
(***************************************************************************)
(* A model of github.com/andrewpillar/config: the scanner and parser of    *)
(* the configuration language, and the Decoder that walks the parsed      *)
(* nodes against a Go struct.                                              *)
(*                                                                         *)
(* Go strings are sequences of one-character strings, so that the code     *)
(* that walks a string rune by rune (the scanner, interpolate, the struct  *)
(* tag parsing) is modelled as it is written.  Go values are modelled by   *)
(* kind: a string is such a sequence, every integer kind is the 64-bit     *)
(* two's complement pattern held in four 16-bit limbs, a struct is the     *)
(* sequence of its field values, a map is [nil, m] and a slice [nil, s].   *)
(***************************************************************************)
EXTENDS Integers, Sequences, FiniteSets, TLC

VARIABLES
    pc,      \* position of the running operation
    d,       \* the Decoder: name, includes, expands
    typ,     \* reflect type of the value Decode is given a pointer to
    cfg,     \* that value (el := rv.Elem() in Decoder.Decode)
    cfg0,    \* the value before Decode was called
    nn,      \* the node sequence (returned by parse, consumed by Decode)
    idx,     \* index of the next node of the Decode loop
    errs,    \* every (pos, msg) handed to the error handler errh, in order
    ret,     \* what the running entry point returned
    p,       \* the parser, with its scanner and source
    fs,      \* the files that os.Open can open, by name
    given    \* the input as it was drawn, for stating the claims

vars == <<pc, d, typ, cfg, cfg0, nn, idx, errs, ret, p, fs, given>>

----------------------------------------------------------------------------
(* Strings *)

Nil == [node |-> "nil"]

Max(a, b) == IF a > b THEN a ELSE b
Min(a, b) == IF a < b THEN a ELSE b

\* s[from..] and s[..to] of a Go string, 0-based half-open like s[from:to]
Slice(s, from, to) == SubSeq(s, from + 1, to)

\* strings.Index(s, c) for a one-character c: 0-based, -1 when absent
RECURSIVE IndexFrom(_, _, _)
IndexFrom(s, c, k) ==
    IF k > Len(s) THEN -1
    ELSE IF s[k] = c THEN k - 1
    ELSE IndexFrom(s, c, k + 1)

Index(s, c) == IndexFrom(s, c, 1)

HasPrefix(s, pre) == Len(s) >= Len(pre) /\ SubSeq(s, 1, Len(pre)) = pre

\* strings.Split(s, c) for a one-character separator
RECURSIVE Split(_, _)
RECURSIVE SplitAt(_, _, _)
SplitAt(s, c, k) ==
    IF k < 0 THEN <<s>>
    ELSE <<Slice(s, 0, k)>> \o Split(Slice(s, k + 1, Len(s)), c)

Split(s, c) == SplitAt(s, c, Index(s, c))

RECURSIVE Concat(_)
Concat(ss) == IF ss = <<>> THEN <<>> ELSE Head(ss) \o Concat(Tail(ss))

Range(s) == {s[k] : k \in DOMAIN s}

----------------------------------------------------------------------------
(* Integers: the 64-bit two's complement pattern, four 16-bit limbs, least *)
(* significant first.  strconv.ParseInt and the reflect conversions are    *)
(* computed on limbs because the values of sizes and durations exceed the  *)
(* range of the model checker's own integers.                              *)

Base == 2 ^ 16

Zero64 == <<0, 0, 0, 0>>
Max64 == <<Base - 1, Base - 1, Base - 1, Base - 1>>

\* v * k + a on 64 bits, k and a small; over: the result did not fit
MulAdd(v, k, a) ==
    LET t1 == v[1] * k + a
        t2 == v[2] * k + (t1 \div Base)
        t3 == v[3] * k + (t2 \div Base)
        t4 == v[4] * k + (t3 \div Base)
    IN [v |-> <<t1 % Base, t2 % Base, t3 % Base, t4 % Base>>,
        over |-> (t4 \div Base) > 0]

\* unsigned comparison: -1, 0, 1
CmpU(a, b) ==
    LET ks == {k \in 1..4 : a[k] # b[k]}
    IN IF ks = {} THEN 0
       ELSE LET k == CHOOSE x \in ks : \A y \in ks : y <= x
            IN IF a[k] < b[k] THEN -1 ELSE 1

\* -v on 64 bits
Neg64(v) == MulAdd([k \in 1..4 |-> Base - 1 - v[k]], 1, 1).v

\* v - 1 on 64 bits
Sub1(v) == Neg64(MulAdd(Neg64(v), 1, 1).v)

\* the pattern of a small integer of the model
I64(n) == IF n >= 0 THEN <<n % Base, n \div Base, 0, 0>>
          ELSE Neg64(<<(-n) % Base, (-n) \div Base, 0, 0>>)

\* 1 << (bitSize - 1), as strconv.ParseInt's cutoff
Cutoff(bitSize) ==
    CASE bitSize = 8 -> <<2 ^ 7, 0, 0, 0>>
      [] bitSize = 16 -> <<2 ^ 15, 0, 0, 0>>
      [] bitSize = 32 -> <<0, 2 ^ 15, 0, 0>>
      [] OTHER -> <<0, 0, 0, 2 ^ 15>>

\* 1<<bitSize - 1, as strconv.ParseUint's maxVal
MaxVal(bitSize) ==
    CASE bitSize = 8 -> <<2 ^ 8 - 1, 0, 0, 0>>
      [] bitSize = 16 -> <<Base - 1, 0, 0, 0>>
      [] bitSize = 32 -> <<Base - 1, Base - 1, 0, 0>>
      [] OTHER -> Max64

UpperCase == <<"A", "B", "C", "D", "E", "F", "G", "H", "I", "J", "K", "L", "M",
               "N", "O", "P", "Q", "R", "S", "T", "U", "V", "W", "X", "Y", "Z">>
LowerCase == <<"a", "b", "c", "d", "e", "f", "g", "h", "i", "j", "k", "l", "m",
               "n", "o", "p", "q", "r", "s", "t", "u", "v", "w", "x", "y", "z">>

Digits == <<"0", "1", "2", "3", "4", "5", "6", "7", "8", "9">>

isDigit(r) == r \in Range(Digits)

DigitVal(r) == (CHOOSE k \in DOMAIN Digits : Digits[k] = r) - 1

\* strconv.ParseUint(s, 10, bitSize): [v, err], err one of "", "syntax", "range"
RECURSIVE ParseUintFrom(_, _, _, _)
ParseUintFrom(s, k, acc, bitSize) ==
    IF k > Len(s) THEN [v |-> acc, err |-> ""]
    ELSE IF ~isDigit(s[k]) THEN [v |-> Zero64, err |-> "syntax"]
    ELSE LET n == MulAdd(acc, 10, DigitVal(s[k]))
         IN IF n.over \/ CmpU(n.v, MaxVal(bitSize)) > 0
            THEN [v |-> MaxVal(bitSize), err |-> "range"]
            ELSE ParseUintFrom(s, k + 1, n.v, bitSize)

ParseUint(s, bitSize) ==
    IF s = <<>> THEN [v |-> Zero64, err |-> "syntax"]
    ELSE ParseUintFrom(s, 1, Zero64, bitSize)

\* strconv.ParseInt on the magnitude un that ParseUint read: the value is
\* clamped to the range of bitSize
ParseIntSigned(neg, un, cutoff) ==
    IF un.err = "syntax" THEN [v |-> Zero64, err |-> "syntax"]
    ELSE IF ~neg /\ CmpU(un.v, cutoff) >= 0
    THEN [v |-> Sub1(cutoff), err |-> "range"]
    ELSE IF neg /\ CmpU(un.v, cutoff) > 0
    THEN [v |-> Neg64(cutoff), err |-> "range"]
    ELSE [v |-> IF neg THEN Neg64(un.v) ELSE un.v, err |-> ""]

\* strconv.ParseInt(s, 10, bitSize)
ParseInt(s, bitSize) ==
    IF s = <<>> THEN [v |-> Zero64, err |-> "syntax"]
    ELSE ParseIntSigned(s[1] = "-",
                        ParseUint(IF s[1] \in {"+", "-"} THEN Tail(s) ELSE s, bitSize),
                        Cutoff(bitSize))

----------------------------------------------------------------------------
(* Types (reflect.Type) and values (reflect.Value) *)

T(kind) == [kind |-> kind]
MapOf(key, elem) == [kind |-> "map", key |-> key, elem |-> elem]
SliceOf(elem) == [kind |-> "slice", elem |-> elem]
\* a struct type: its fields in declaration order, each [Name, Tag, Type],
\* Tag the text of the field's `config:"..."` tag
StructOf(fields) == [kind |-> "struct", fields |-> fields]
SF(name, tag, type) == [Name |-> name, Tag |-> tag, Type |-> type]

SignedKinds == {"int", "int8", "int16", "int32", "int64"}
FloatKinds == {"float32", "float64"}

EmptyMap == [k \in {} |-> 0]
NilMap == [nil |-> TRUE, m |-> EmptyMap]
MakeMap == [nil |-> FALSE, m |-> EmptyMap]
NilSlice == [nil |-> TRUE, s |-> <<>>]
MakeSlice == [nil |-> FALSE, s |-> <<>>]
ZeroFloat == [neg |-> FALSE, int |-> <<>>, frac |-> <<>>]

\* reflect.New(rt).Elem(): the zero value of a type
RECURSIVE ZeroOf(_)
ZeroOf(rt) ==
    CASE rt.kind = "string" -> <<>>
      [] rt.kind = "bool" -> FALSE
      [] rt.kind \in FloatKinds -> ZeroFloat
      [] rt.kind = "map" -> NilMap
      [] rt.kind = "slice" -> NilSlice
      [] rt.kind = "struct" -> [k \in DOMAIN rt.fields |-> ZeroOf(rt.fields[k].Type)]
      [] OTHER -> Zero64

NoErr == [kind |-> "nil"]

\* errors.New(msg); a message is the sequence of the pieces it is built from
ErrorsNew(msg) == [kind |-> "error", msg |-> msg]

\* baseNode.Err(msg): the error of a node, at the node's position
NodeErr(n, msg) == [kind |-> "error", pos |-> n.pos, msg |-> msg]

----------------------------------------------------------------------------
(* Decoder.interpolate *)

\* utf8.RuneSelf: the runes below it are one byte each
Ascii == {"_", "-", ".", ":", "/", " ", "$", "{", "}", "\\", "\"", "#", ";", ",",
          "[", "]", "\n", "\t", "\r", "@"}
         \cup {Digits[k] : k \in DOMAIN Digits}
         \cup {UpperCase[k] : k \in 1..26} \cup {LowerCase[k] : k \in 1..26}

\* the one rune of the model that is not ASCII, U+00E9, and its two bytes
Utf8(r) == IF r = "U+00E9" THEN <<"0xC3", "0xA9">>
           ELSE IF r = "RuneError" THEN <<"0xEF", "0xBF", "0xBD">>
           ELSE <<r>>

\* the bytes of a string
RECURSIVE Bytes(_)
Bytes(s) == IF s = <<>> THEN <<>> ELSE Utf8(Head(s)) \o Bytes(Tail(s))

\* utf8.DecodeRune(b[i:]), i 0-based: the rune and its width
DecodeRune(b, i) ==
    IF i + 2 <= Len(b) /\ b[i + 1] = "0xC3" /\ b[i + 2] = "0xA9"
    THEN [r |-> "U+00E9", w |-> 2]
    ELSE IF i + 3 <= Len(b) /\ b[i + 1] = "0xEF" /\ b[i + 2] = "0xBF" /\ b[i + 3] = "0xBD"
    THEN [r |-> "RuneError", w |-> 3]
    ELSE [r |-> "RuneError", w |-> 1]

\* os.Getenv through expandEnvvar: an unset variable is the empty string
expandEnvvar(environ, key) ==
    [v |-> IF key \in DOMAIN environ THEN environ[key] ELSE <<>>, err |-> NoErr]

\* calling a registered ExpandFunc: a provider is [tab, fails]; it fails on
\* the keys in fails and maps the others through tab (absent: empty)
CallExpand(fn, key) ==
    IF key \in fn.fails THEN [v |-> <<>>, err |-> ErrorsNew(<<"expand failed: ">> \o key)]
    ELSE [v |-> IF key \in DOMAIN fn.tab THEN fn.tab[key] ELSE <<>>, err |-> NoErr]

\* a prefix that is not registered is looked up in the environment
ExpandSpan_envFallback(dec, expr) ==
    IF Index(expr, ":") > 0 /\ Slice(expr, 0, Index(expr, ":")) \in DOMAIN dec.expands
    THEN CallExpand(dec.expands[Slice(expr, 0, Index(expr, ":"))],
                    Slice(expr, Index(expr, ":") + 1, Len(expr)))
    ELSE expandEnvvar(dec.environ, expr)

\* one closing brace with interpolate set: decode.go:81-106
ExpandSpan(dec, expr) ==
    LET k == Index(expr, ":")
    IN IF k > 0
       THEN IF Slice(expr, 0, k) \notin DOMAIN dec.expands
            THEN [v |-> <<>>,
                  err |-> ErrorsNew(<<"undefined variable expansion: ">> \o Slice(expr, 0, k))]
            ELSE CallExpand(dec.expands[Slice(expr, 0, k)], Slice(expr, k + 1, Len(expr)))
       ELSE expandEnvvar(dec.environ, expr)

\* the loop of interpolate over the bytes b of the string: i the byte offset,
\* w the width of the last decoded rune, val and expr the runes collected
RECURSIVE interpolateLoop(_, _, _, _, _, _, _)
interpolateLoop(dec, b, i, w, interp, val, expr) ==
    IF i > Len(b) - 1 THEN [v |-> val, err |-> NoErr]
    ELSE
      LET dr == IF b[i + 1] \notin Ascii THEN DecodeRune(b, i) ELSE [r |-> b[i + 1], w |-> w]
          r == dr.r
          j == i + dr.w
      IN IF r = "\\" THEN interpolateLoop(dec, b, j, dr.w, interp, val, expr)
         ELSE IF r = "$" /\ Cardinality(DOMAIN dec.expands) > 0
                 /\ j <= Len(b) - 1 /\ b[j + 1] = "{"
         THEN interpolateLoop(dec, b, j + 1, dr.w, TRUE, val, expr)
         ELSE IF r = "}" /\ interp
         THEN LET x == ExpandSpan(dec, expr)
              IN IF x.err # NoErr THEN [v |-> <<>>, err |-> x.err]
                 ELSE interpolateLoop(dec, b, j, dr.w, FALSE, val \o x.v, expr)
         ELSE IF interp
         THEN interpolateLoop(dec, b, j, dr.w, interp, val, Append(expr, r))
         ELSE interpolateLoop(dec, b, j, dr.w, interp, Append(val, r), expr)

interpolate(dec, s) == interpolateLoop(dec, Bytes(s), 0, 1, FALSE, <<>>, <<>>)

----------------------------------------------------------------------------
(* Decoder.decodeLiteral *)

LitTypeString(t) ==
    CASE t = "StringLit" -> "string"
      [] t = "IntLit" -> "int"
      [] t = "FloatLit" -> "float"
      [] t = "BoolLit" -> "bool"
      [] t = "DurationLit" -> "duration"
      [] OTHER -> "size"

\* a + b on 64 bits
Add64(a, b) ==
    LET t1 == a[1] + b[1]
        t2 == a[2] + b[2] + (t1 \div Base)
        t3 == a[3] + b[3] + (t2 \div Base)
        t4 == a[4] + b[4] + (t3 \div Base)
    IN [v |-> <<t1 % Base, t2 % Base, t3 % Base, t4 % Base>>,
        over |-> (t4 \div Base) > 0]

\* v times every factor of ks in turn, on 64 bits
RECURSIVE MulAll(_, _)
MulAll(x, ks) ==
    IF ks = <<>> THEN x
    ELSE LET n == MulAdd(x.v, Head(ks), 0)
         IN MulAll([v |-> n.v, over |-> x.over \/ n.over], Tail(ks))

\* the leading digits of s
RECURSIVE LeadingDigits(_)
LeadingDigits(s) ==
    IF s = <<>> \/ ~isDigit(Head(s)) THEN <<>>
    ELSE <<Head(s)>> \o LeadingDigits(Tail(s))

\* the number a run of at most nine digits denotes
RECURSIVE SmallNum(_, _)
SmallNum(ds, acc) ==
    IF ds = <<>> THEN acc ELSE SmallNum(Tail(ds), acc * 10 + DigitVal(Head(ds)))

\* a decimal without its sign, digits[.digits]rest, given its leading digits
\* ip: [ip, fp, rest]
DecimalFrom(body, ip) ==
    IF Len(ip) < Len(body) /\ body[Len(ip) + 1] = "."
    THEN [ip |-> ip, fp |-> LeadingDigits(Slice(body, Len(ip) + 1, Len(body))),
          dot |-> 1, body |-> body]
    ELSE [ip |-> ip, fp |-> <<>>, dot |-> 0, body |-> body]

Decimal(body) == DecimalFrom(body, LeadingDigits(body))

\* what follows the digits of a decimal
DecimalRest(n) == Slice(n.body, Len(n.ip) + n.dot + Len(n.fp), Len(n.body))

IsNeg(s) == s # <<>> /\ Head(s) = "-"
Unsigned(s) == IF s # <<>> /\ Head(s) \in {"+", "-"} THEN Tail(s) ELSE s

\* the nanoseconds of one unit, as factors
UnitFactors(u) ==
    CASE u = <<"s">> -> <<1000, 1000, 1000>>
      [] u = <<"m">> -> <<1000, 1000, 1000, 60>>
      [] u = <<"h">> -> <<1000, 1000, 1000, 60, 60>>
      [] OTHER -> <<>>

\* the sum of the whole and the fractional part of a duration, in range or not
DurationSum(s, whole, part, sum) ==
    IF \/ whole.over \/ part.over \/ sum.over
       \/ CmpU(sum.v, Cutoff(64)) > 0
       \/ ~IsNeg(s) /\ CmpU(sum.v, Cutoff(64)) = 0
    THEN [v |-> Zero64, err |-> ErrorsNew(<<"time: invalid duration ">> \o s)]
    ELSE [v |-> IF IsNeg(s) THEN Neg64(sum.v) ELSE sum.v, err |-> NoErr]

DurationParts(s, whole, part) == DurationSum(s, whole, part, Add64(whole.v, part.v))

\* the nanoseconds of the decimal n in the unit of factors facs; the fraction
\* counts to nine digits
DurationOf(s, n, iv, facs) ==
    IF (n.ip = <<>> /\ n.fp = <<>>) \/ facs = <<>>
    THEN [v |-> Zero64, err |-> ErrorsNew(<<"time: invalid duration ">> \o s)]
    ELSE DurationParts(s,
           MulAll([v |-> iv.v, over |-> iv.err # ""], facs),
           MulAll([v |-> I64(SmallNum(SubSeq(n.fp \o <<"0", "0", "0", "0", "0", "0", "0", "0", "0">>, 1, 9), 0)),
                   over |-> FALSE],
                  SubSeq(facs, 4, Len(facs))))

DurationOfDecimal(s, n) ==
    DurationOf(s, n,
               IF n.ip = <<>> THEN [v |-> Zero64, err |-> ""] ELSE ParseUint(n.ip, 64),
               UnitFactors(DecimalRest(n)))

\* time.ParseDuration for a literal the scanner can produce, [-]digits[.digits]unit
\* with one unit
ParseDuration(s) == DurationOfDecimal(s, Decimal(Unsigned(s)))

\* the units as powers of 1000
siztab_decimal ==
    (<<"B">> :> <<>>) @@ (<<"K", "B">> :> <<1000>>) @@ (<<"M", "B">> :> <<1000, 1000>>)
    @@ (<<"G", "B">> :> <<1000, 1000, 1000>>) @@ (<<"T", "B">> :> <<1000, 1000, 1000, 1000>>)

\* siztab: the shifts by ten of each unit, as factors of 1024
siztab ==
    (<<"B">> :> <<>>) @@ (<<"K", "B">> :> <<2 ^ 10>>) @@ (<<"M", "B">> :> <<2 ^ 10, 2 ^ 10>>)
    @@ (<<"G", "B">> :> <<2 ^ 10, 2 ^ 10, 2 ^ 10>>)
    @@ (<<"T", "B">> :> <<2 ^ 10, 2 ^ 10, 2 ^ 10, 2 ^ 10>>)

\* strconv.ParseFloat as the decimal it reads: sign, integer digits without
\* leading zeros, fraction digits without trailing zeros; zero when malformed
RECURSIVE StripLeft(_)
StripLeft(ds) == IF ds # <<>> /\ Head(ds) = "0" THEN StripLeft(Tail(ds)) ELSE ds
RECURSIVE StripRight(_)
StripRight(ds) ==
    IF ds # <<>> /\ ds[Len(ds)] = "0" THEN StripRight(SubSeq(ds, 1, Len(ds) - 1)) ELSE ds

FloatOf(neg, n, int, frac) ==
    IF DecimalRest(n) # <<>> \/ (n.ip = <<>> /\ n.fp = <<>>) THEN ZeroFloat
    ELSE [neg |-> neg /\ (int # <<>> \/ frac # <<>>), int |-> int, frac |-> frac]

FloatOfDecimal(neg, n) == FloatOf(neg, n, StripLeft(n.ip), StripRight(n.fp))

ParseFloat(s) == FloatOfDecimal(IsNeg(s), Decimal(Unsigned(s)))

\* the zero reflect.Value
Invalid == [k |-> "invalid", x |-> <<>>]

\* decode.go:122-128: the string a literal interpolates to, or its error
stringValue(l, v) ==
    IF v.err # NoErr THEN [rv |-> Invalid, err |-> NodeErr(l, v.err.msg)]
    ELSE [rv |-> [k |-> "string", x |-> v.v], err |-> NoErr]

\* decode.go:187-193: the duration a literal parses to, or its error
durationValue(l, dur) ==
    IF dur.err # NoErr THEN [rv |-> Invalid, err |-> NodeErr(l, dur.err.msg)]
    ELSE [rv |-> [k |-> "int64", x |-> dur.v], err |-> NoErr]

\* decode.go:199-220: the bytes of a size literal, val its digits and unit
\* the one or two letters that end it
sizeValue(l, val, unit) ==
    IF unit \notin DOMAIN siztab
    THEN [rv |-> Invalid, err |-> NodeErr(l, <<"unrecognized size ">> \o unit)]
    ELSE [rv |-> [k |-> "int64",
                  x |-> MulAll([v |-> ParseInt(val, 64).v, over |-> FALSE], siztab[unit]).v],
          err |-> NoErr]

\* the bit size where int is as wide as the machine word
bitSizeOf_wordSize(kind) ==
    CASE kind = "int8" -> 8
      [] kind = "int16" -> 16
      [] kind = "int32" -> 32
      [] OTHER -> 64

\* decode.go:138-149: the bit size of a signed kind
bitSizeOf(kind) ==
    CASE kind = "int" -> 32
      [] kind = "int8" -> 8
      [] kind = "int16" -> 16
      [] kind = "int32" -> 32
      [] OTHER -> 64

\* the error of a literal that the kind of the target does not admit
cannotUse(l, kind) ==
    [rv |-> Invalid, err |-> NodeErr(l, <<"cannot use ", LitTypeString(l.Type), " as ", kind>>)]

\* Decoder.decodeLiteral(rt, lit): [rv, err], rv the reflect.Value [k, x] of
\* dynamic kind k
decodeLiteral(dec, rt, l) ==
    CASE l.Type = "StringLit" ->
           IF rt.kind # "string" THEN cannotUse(l, rt.kind)
           ELSE stringValue(l, interpolate(dec, l.Value))
      [] l.Type = "IntLit" ->
           IF rt.kind \notin SignedKinds THEN cannotUse(l, rt.kind)
           ELSE [rv |-> [k |-> "int64", x |-> ParseInt(l.Value, bitSizeOf(rt.kind)).v],
                 err |-> NoErr]
      [] l.Type = "FloatLit" ->
           IF rt.kind \notin FloatKinds THEN cannotUse(l, rt.kind)
           ELSE [rv |-> [k |-> "float64", x |-> ParseFloat(l.Value)], err |-> NoErr]
      [] l.Type = "BoolLit" ->
           IF rt.kind # "bool" THEN cannotUse(l, rt.kind)
           ELSE [rv |-> [k |-> "bool", x |-> l.Value = <<"t", "r", "u", "e">>], err |-> NoErr]
      [] l.Type = "DurationLit" ->
           IF rt.kind # "int64" THEN cannotUse(l, rt.kind)
           ELSE durationValue(l, ParseDuration(l.Value))
      [] l.Type = "SizeLit" ->
           IF rt.kind # "int64" THEN cannotUse(l, rt.kind)
           ELSE IF l.Value[Len(l.Value) - 1] \in {"K", "M", "G", "T"}
           THEN sizeValue(l, Slice(l.Value, 0, Len(l.Value) - 2),
                          Slice(l.Value, Len(l.Value) - 2, Len(l.Value)))
           ELSE sizeValue(l, Slice(l.Value, 0, Len(l.Value) - 1),
                          Slice(l.Value, Len(l.Value) - 1, Len(l.Value)))
      [] OTHER -> [rv |-> Invalid, err |-> NoErr]

\* reflect.Value.Convert for the conversions decodeLiteral's results undergo:
\* an integer is cut to the width of the target kind and sign-extended, a
\* string or bool keeps its value; float32 is not rounded
Convert(rv, rt) ==
    IF rv.k = "int64"
    THEN CASE rt.kind = "int8" ->
                LET b == rv.x[1] % 2 ^ 8
                IN IF b >= 2 ^ 7 THEN <<b + Base - 2 ^ 8, Base - 1, Base - 1, Base - 1>>
                   ELSE <<b, 0, 0, 0>>
           [] rt.kind = "int16" ->
                IF rv.x[1] >= 2 ^ 15 THEN <<rv.x[1], Base - 1, Base - 1, Base - 1>>
                ELSE <<rv.x[1], 0, 0, 0>>
           [] rt.kind = "int32" ->
                IF rv.x[2] >= 2 ^ 15 THEN <<rv.x[1], rv.x[2], Base - 1, Base - 1>>
                ELSE <<rv.x[1], rv.x[2], 0, 0>>
           [] OTHER -> rv.x
    ELSE rv.x

----------------------------------------------------------------------------
(* Field descriptors: foldFunc, Decoder.loadFields, fields.get *)

ToLower(r) ==
    IF r \in Range(UpperCase)
    THEN LowerCase[CHOOSE k \in DOMAIN UpperCase : UpperCase[k] = r]
    ELSE r

\* the comparator foldFunc(name) returns, applied to (s, t): equality of the
\* two names when the case of their letters is ignored
foldFunc(s, t) ==
    Len(s) = Len(t) /\ \A k \in DOMAIN s : ToLower(s[k]) = ToLower(t[k])

sDeprecated == <<"d", "e", "p", "r", "e", "c", "a", "t", "e", "d">>
sNogroup == <<"n", "o", "g", "r", "o", "u", "p">>

\* decode.go:509-520: the replacement the deprecated options name, that of
\* the last option `deprecated:<name>`
altnameOf(opts, alts) ==
    IF alts = {} THEN <<>>
    ELSE Slice(opts[CHOOSE k \in alts : \A j \in alts : j <= k],
               Index(opts[CHOOSE k \in alts : \A j \in alts : j <= k], ":") + 1,
               Len(opts[CHOOSE k \in alts : \A j \in alts : j <= k]))

\* decode.go:503-523: the options of a tag, deps the indices of the
\* deprecated ones
fieldOptions(name, i, opts, deps) ==
    [name |-> name,
     val |-> i,
     deprecated |-> deps # {},
     altname |-> altnameOf(opts, {k \in deps : Index(opts[k], ":") > 0}),
     nogroup |-> \E k \in DOMAIN opts : k \notin deps /\ opts[k] = sNogroup]

\* decode.go:499-501: the name is the first part of the tag unless empty
taggedField(sf, i, parts) ==
    fieldOptions(IF parts[1] # <<>> THEN parts[1] ELSE sf.Name, i, Tail(parts),
                 {k \in DOMAIN Tail(parts) : HasPrefix(Tail(parts)[k], sDeprecated)})

\* the field descriptor of struct field i (0-based), from its name and tag:
\* the body of the loop of loadFields
loadField(sf, i) ==
    IF sf.Tag # <<>> THEN taggedField(sf, i, Split(sf.Tag, ","))
    ELSE fieldOptions(sf.Name, i, <<>>, {})

\* Decoder.loadFields(rv): arr holds the descriptors of the fields that are
\* not excluded, in order; tab maps a name to the index i of its struct field
RECURSIVE loadFieldsFrom(_, _, _)
RECURSIVE addField(_, _, _, _)
addField(rt, i, acc, f) ==
    IF f.name = <<"-">> THEN loadFieldsFrom(rt, i + 1, acc)
    ELSE loadFieldsFrom(rt, i + 1,
             [arr |-> Append(acc.arr, f), tab |-> (f.name :> i) @@ acc.tab])

loadFieldsFrom(rt, i, acc) ==
    IF i >= Len(rt.fields) THEN acc
    ELSE addField(rt, i, acc, loadField(rt.fields[i + 1], i))

loadFields(rt) == loadFieldsFrom(rt, 0, [arr |-> <<>>, tab |-> EmptyMap])

\* fields.get(name): arr[tab[name]], which is out of range (a panic) when the
\* index of the struct field is not an index of arr
get(fields, name) ==
    IF name \in DOMAIN fields.tab
    THEN IF fields.tab[name] < Len(fields.arr)
         THEN [f |-> fields.arr[fields.tab[name] + 1], ok |-> TRUE, panic |-> FALSE]
         ELSE [f |-> Nil, ok |-> FALSE, panic |-> TRUE]
    ELSE [f |-> Nil, ok |-> FALSE, panic |-> FALSE]

\* the lazy search of doDecode: the first field whose fold comparator accepts
\* the name
foldSearch(fields, name) ==
    LET ks == {k \in DOMAIN fields.arr : foldFunc(fields.arr[k].name, name)}
    IN IF ks = {} THEN Nil
       ELSE fields.arr[CHOOSE k \in ks : \A j \in ks : k <= j]

----------------------------------------------------------------------------
(* Decoder.doDecode, decodeBlock, decodeArray *)

\* a panic of the Go runtime or of reflect: it unwinds through every caller
Panic(msg) == [kind |-> "panic", msg |-> msg]
IsPanic(err) == err.kind = "panic"

DecodeError(pos, param, label, type, field) ==
    [kind |-> "DecodeError", Pos |-> pos, Param |-> param, Label |-> label,
     Type |-> type, Field |-> field]

\* a reflect.Value to store: valid is false for the zero Value
Valid(x) == [valid |-> TRUE, x |-> x]
NoValue == [valid |-> FALSE, x |-> <<>>]

\* reflect.Value.SetMapIndex(key, elem): the zero Value deletes the key
SetMapIndex(mv, key, pv) ==
    IF ~pv.valid
    THEN [nil |-> mv.nil, m |-> [k \in DOMAIN mv.m \ {key} |-> mv.m[k]]]
    ELSE [nil |-> mv.nil, m |-> (key :> pv.x) @@ mv.m]

\* the diagnostic names the field, not the parameter as written
deprecatedMsg_fieldName(f, name) ==
    f.name \o <<" is deprecated">>
    \o (IF f.altname # <<>> THEN <<" use ">> \o f.altname \o <<" instead">> ELSE <<>>)

\* the message of the deprecation diagnostic, decode.go:562-566
deprecatedMsg(f, name) ==
    name \o <<" is deprecated">>
    \o (IF f.altname # <<>> THEN <<" use ">> \o f.altname \o <<" instead">> ELSE <<>>)

RECURSIVE doDecode(_, _, _, _, _)
RECURSIVE decodeValue(_, _, _, _)
RECURSIVE decodeBlock(_, _, _, _)
RECURSIVE decodeArray(_, _, _, _)
RECURSIVE decodeBlockMap(_, _, _, _, _, _, _)
RECURSIVE decodeBlockStruct(_, _, _, _, _, _)
RECURSIVE decodeItems(_, _, _, _, _, _)

\* the reflect.Value of a decoded literal, converted to the type el
literalValue(r, el, eh) ==
    IF r.err # NoErr THEN [pv |-> NoValue, err |-> r.err, errs |-> eh]
    ELSE IF r.rv.k = "invalid" THEN [pv |-> NoValue, err |-> NoErr, errs |-> eh]
    ELSE [pv |-> Valid(Convert(r.rv, el)), err |-> NoErr, errs |-> eh]

\* the operand of a parameter decoded as type el: [pv, err, errs], pv the
\* reflect.Value to store
decodeValue(dec, el, v, eh) ==
    CASE v.node = "lit" -> literalValue(decodeLiteral(dec, el, v), el, eh)
      [] v.node = "block" -> decodeBlock(dec, el, v, eh)
      [] v.node = "array" -> decodeArray(dec, el, v, eh)
      [] OTHER -> [pv |-> NoValue, err |-> NoErr, errs |-> eh]

\* an unmatched name falls back to the first field
resolve_fallback(fields, name) ==
    IF name \in DOMAIN fields.tab
    THEN get(fields, name)
    ELSE [f |-> IF foldSearch(fields, name) = Nil THEN fields.arr[1]
                ELSE foldSearch(fields, name),
          ok |-> TRUE, panic |-> FALSE]

\* decode.go:544-559: the field a parameter name resolves to, Nil when none
resolve(fields, name) ==
    IF name \in DOMAIN fields.tab
    THEN get(fields, name)
    ELSE [f |-> foldSearch(fields, name), ok |-> FALSE, panic |-> FALSE]

\* decode.go:561-568: the handler's log after the deprecation diagnostic
notifyDeprecated(f, prm, eh) ==
    IF f.deprecated
    THEN Append(eh, [pos |-> prm.pos, msg |-> deprecatedMsg(f, prm.Name.Value)])
    ELSE eh

\* the recursion keeps the parameter's own name
nogroupParam_keepName(prm) ==
    [node |-> "param", pos |-> prm.pos, Name |-> prm.Name, Label |-> Nil,
     Value |-> prm.Value]

\* decode.go:587-591: the parameter doDecode recurses on under nogroup
nogroupParam(prm) ==
    [node |-> "param", pos |-> prm.pos, Name |-> prm.Label, Label |-> Nil,
     Value |-> prm.Value]

\* the map made anew for every labelled parameter
lazyMakeMap_always(fv) == MakeMap

\* decode.go:607-609: a nil map field is made before the operand is decoded
lazyMakeMap(fv) == IF fv.nil THEN MakeMap ELSE fv

\* decode.go:622-627 and 637-642: the error of a failed operand
operandError(prm, el, f) == DecodeError(prm.pos, prm.Name.Value, <<>>, el, f.name)

\* decode.go:578-584 and 595-601: the error of a label that cannot be used
labelError(prm, ft, f) == DecodeError(prm.pos, prm.Name.Value, prm.Label.Value, ft, f.name)

\* decode.go:592: the nested struct as the recursion n leaves it
nogroupResult(rv, f, n) ==
    [rv |-> [rv EXCEPT ![f.val + 1] = n.rv], err |-> n.err, errs |-> n.errs]

\* decode.go:621-646: the operand r of a labelled parameter set in the map fv
\* of field f under the label
setLabelled(rv, prm, f, ft, fv, r) ==
    IF IsPanic(r.err)
    THEN [rv |-> [rv EXCEPT ![f.val + 1] = fv], err |-> r.err, errs |-> r.errs]
    ELSE IF r.err # NoErr
    THEN [rv |-> [rv EXCEPT ![f.val + 1] = fv], err |-> operandError(prm, ft.elem, f),
          errs |-> r.errs]
    ELSE IF ft.key.kind # "string"
    THEN [rv |-> [rv EXCEPT ![f.val + 1] = fv],
          err |-> Panic("reflect.Value.SetMapIndex: value of type string is not assignable"),
          errs |-> r.errs]
    ELSE [rv |-> [rv EXCEPT ![f.val + 1] = SetMapIndex(fv, prm.Label.Value, r.pv)],
          err |-> NoErr, errs |-> r.errs]

\* the operand set in field f, the fields of a record it leaves zero kept as
\* they were
setPlain_merge(rv, prm, f, ft, r) ==
    IF IsPanic(r.err) THEN [rv |-> rv, err |-> r.err, errs |-> r.errs]
    ELSE IF r.err # NoErr
    THEN [rv |-> rv, err |-> operandError(prm, ft, f), errs |-> r.errs]
    ELSE IF ~r.pv.valid
    THEN [rv |-> rv, err |-> Panic("reflect: call of reflect.Value.Set on zero Value"),
          errs |-> r.errs]
    ELSE IF ft.kind = "struct"
    THEN [rv |-> [rv EXCEPT ![f.val + 1] =
                     [i \in DOMAIN @ |-> IF r.pv.x[i] = ZeroOf(ft)[i] THEN @[i] ELSE r.pv.x[i]]],
          err |-> NoErr, errs |-> r.errs]
    ELSE [rv |-> [rv EXCEPT ![f.val + 1] = r.pv.x], err |-> NoErr, errs |-> r.errs]

\* decode.go:636-650: the operand r of a parameter without label set in field f
setPlain(rv, prm, f, ft, r) ==
    IF IsPanic(r.err) THEN [rv |-> rv, err |-> r.err, errs |-> r.errs]
    ELSE IF r.err # NoErr
    THEN [rv |-> rv, err |-> operandError(prm, ft, f), errs |-> r.errs]
    ELSE IF ~r.pv.valid
    THEN [rv |-> rv, err |-> Panic("reflect: call of reflect.Value.Set on zero Value"),
          errs |-> r.errs]
    ELSE [rv |-> [rv EXCEPT ![f.val + 1] = r.pv.x], err |-> NoErr, errs |-> r.errs]

\* decode.go:570-650: the parameter decoded into the field f it resolved to,
\* ft the type of the field, eh the handler's log after the deprecation
decodeField(dec, rv, prm, f, ft, eh) ==
    IF prm.Label # Nil
    THEN IF f.nogroup
         THEN IF ft.kind # "struct"
              THEN [rv |-> rv, err |-> labelError(prm, ft, f), errs |-> eh]
              ELSE nogroupResult(rv, f, doDecode(dec, ft, rv[f.val + 1], nogroupParam(prm), eh))
         ELSE IF ft.kind # "map"
         THEN [rv |-> rv, err |-> labelError(prm, ft, f), errs |-> eh]
         ELSE setLabelled(rv, prm, f, ft, lazyMakeMap(rv[f.val + 1]),
                          decodeValue(dec, ft.elem, prm.Value, eh))
    ELSE setPlain(rv, prm, f, ft, decodeValue(dec, ft, prm.Value, eh))

\* decode.go:544-568: g the outcome of the lookup of the parameter's name
decodeResolved(dec, rt, rv, prm, eh, g) ==
    IF g.panic THEN [rv |-> rv, err |-> Panic("index out of range"), errs |-> eh]
    ELSE IF g.f = Nil THEN [rv |-> rv, err |-> NoErr, errs |-> eh]
    ELSE decodeField(dec, rv, prm, g.f, rt.fields[g.f.val + 1].Type,
                     notifyDeprecated(g.f, prm, eh))

\* Decoder.doDecode(rv, p), rv a struct of type rt: [rv, err, errs], the
\* struct as the call leaves it, the error returned and the handler's log
doDecode(dec, rt, rv, prm, eh) ==
    decodeResolved(dec, rt, rv, prm, eh, resolve(loadFields(rt), prm.Name.Value))

\* decode.go:243-266, one parameter of a block decoded into a map: r is its
\* decoded operand; pv is declared before the loop and keeps its value when
\* the parameter has no operand
setMapEntry(dec, rt, b, k, mv, pv, r) ==
    IF r.err # NoErr THEN [pv |-> Valid(mv), err |-> r.err, errs |-> r.errs]
    ELSE IF b.Params[k].Value = Nil
    THEN decodeBlockMap(dec, rt, b, k + 1, SetMapIndex(mv, b.Params[k].Name.Value, pv),
                        pv, r.errs)
    ELSE decodeBlockMap(dec, rt, b, k + 1, SetMapIndex(mv, b.Params[k].Name.Value, r.pv),
                        r.pv, r.errs)

\* the loop of decodeBlock over the parameters of a block decoded into a map
decodeBlockMap(dec, rt, b, k, mv, pv, eh) ==
    IF k > Len(b.Params) THEN [pv |-> Valid(mv), err |-> NoErr, errs |-> eh]
    ELSE setMapEntry(dec, rt, b, k, mv, pv, decodeValue(dec, rt.elem, b.Params[k].Value, eh))

\* decode.go:271-275, one parameter of a block decoded into a struct: r is
\* what doDecode returned
setStructField(dec, rt, b, k, r) ==
    IF r.err # NoErr THEN [pv |-> Valid(r.rv), err |-> r.err, errs |-> r.errs]
    ELSE decodeBlockStruct(dec, rt, b, k + 1, r.rv, r.errs)

\* the loop of decodeBlock over the parameters of a block decoded into a struct
decodeBlockStruct(dec, rt, b, k, rv, eh) ==
    IF k > Len(b.Params) THEN [pv |-> Valid(rv), err |-> NoErr, errs |-> eh]
    ELSE setStructField(dec, rt, b, k, doDecode(dec, rt, rv, b.Params[k], eh))

\* Decoder.decodeBlock(rt, b): [pv, err, errs]
decodeBlock(dec, rt, b, eh) ==
    IF rt.kind \notin {"struct", "map"}
    THEN [pv |-> NoValue,
          err |-> ErrorsNew(<<"can only decode block into struct or map">>), errs |-> eh]
    ELSE IF rt.kind = "map"
    THEN IF rt.key.kind # "string"
         THEN [pv |-> Valid(MakeMap), err |-> ErrorsNew(<<"cannot decode into non-string key">>),
               errs |-> eh]
         ELSE decodeBlockMap(dec, rt, b, 1, MakeMap, NoValue, eh)
    ELSE decodeBlockStruct(dec, rt, b, 1, ZeroOf(rt), eh)

\* the item put before the elements decoded so far
appendItem_prepend(dec, rt, arr, k, sv, r) ==
    IF r.err # NoErr THEN [pv |-> Valid(sv), err |-> r.err, errs |-> r.errs]
    ELSE decodeItems(dec, rt, arr, k + 1,
                     [nil |-> FALSE,
                      s |-> <<IF r.pv.valid THEN r.pv.x ELSE ZeroOf(rt.elem)>> \o sv.s],
                     r.errs)

\* decode.go:291-317, one item of an array: r is its decoded value; an item
\* that is no node leaves its element zero
appendItem(dec, rt, arr, k, sv, r) ==
    IF r.err # NoErr THEN [pv |-> Valid(sv), err |-> r.err, errs |-> r.errs]
    ELSE decodeItems(dec, rt, arr, k + 1,
                     [nil |-> FALSE,
                      s |-> Append(sv.s, IF r.pv.valid THEN r.pv.x ELSE ZeroOf(rt.elem))],
                     r.errs)

\* the loop of decodeArray
decodeItems(dec, rt, arr, k, sv, eh) ==
    IF k > Len(arr.Items) THEN [pv |-> Valid(sv), err |-> NoErr, errs |-> eh]
    ELSE appendItem(dec, rt, arr, k, sv, decodeValue(dec, rt.elem, arr.Items[k], eh))

\* Decoder.decodeArray(rt, arr): [pv, err, errs]
decodeArray(dec, rt, arr, eh) ==
    IF rt.kind # "slice"
    THEN [pv |-> NoValue, err |-> NodeErr(arr, <<"cannot use slice as ", rt.kind>>), errs |-> eh]
    ELSE decodeItems(dec, rt, arr, 1, MakeSlice, eh)

----------------------------------------------------------------------------
(* Nodes (node.go) *)

Pos(name, line, col) == [name |-> name, line |-> line, col |-> col]
NoPos == Pos(<<>>, 0, 0)

MkName(pos, value) == [pos |-> pos, Value |-> value]
MkLit(pos, type, value) == [node |-> "lit", pos |-> pos, Type |-> type, Value |-> value]
MkParam(pos, name, label, value) ==
    [node |-> "param", pos |-> pos, Name |-> name, Label |-> label, Value |-> value]
MkBlock(pos, params) == [node |-> "block", pos |-> pos, Params |-> params]
MkArray(pos, items) == [node |-> "array", pos |-> pos, Items |-> items]

----------------------------------------------------------------------------
(* Decoder.Decode, after the parse: the loop over the parsed parameters *)

\* the loop goes on after an error and returns the last one
DecodeParam_continue ==
    /\ pc = "decode"
    /\ idx <= Len(nn)
    /\ \E r \in {doDecode(d, typ, cfg, nn[idx], errs)} :
          /\ cfg' = r.rv
          /\ errs' = r.errs
          /\ ret' = IF r.err # NoErr THEN r.err ELSE ret
          /\ pc' = IF r.err # NoErr /\ idx = Len(nn) THEN "done" ELSE pc
          /\ idx' = IF r.err # NoErr /\ idx = Len(nn) THEN idx ELSE idx + 1
    /\ UNCHANGED <<d, typ, cfg0, nn, p, fs, given>>

\* decode.go:464-474, one iteration: the first error ends Decode
DecodeParam ==
    /\ pc = "decode"
    /\ idx <= Len(nn)
    /\ \E r \in {doDecode(d, typ, cfg, nn[idx], errs)} :
          /\ cfg' = r.rv
          /\ errs' = r.errs
          /\ IF r.err # NoErr
             THEN /\ ret' = r.err
                  /\ pc' = "done"
                  /\ idx' = idx
             ELSE /\ ret' = ret
                  /\ pc' = pc
                  /\ idx' = idx + 1
    /\ UNCHANGED <<d, typ, cfg0, nn, p, fs, given>>

\* decode.go:475: every parameter decoded, Decode returns nil
DecodeReturn ==
    /\ pc = "decode"
    /\ idx > Len(nn)
    /\ ret' = NoErr
    /\ pc' = "done"
    /\ UNCHANGED <<d, typ, cfg, cfg0, nn, idx, errs, p, fs, given>>

NextDecode == DecodeParam \/ DecodeReturn

NotReturned == [kind |-> "running"]

----------------------------------------------------------------------------
(* The target of the decoder runs:                                         *)
(*   type Config struct {                                                  *)
(*       Name  string                                                      *)
(*       Port  int64 `config:"port"`                                       *)
(*       Log   map[string]string                                           *)
(*       Auth  map[string]struct{ Addr string; TLS bool }                  *)
(*       Store struct {                                                    *)
(*           SFTP struct{ Addr string }                                    *)
(*           Disk struct{ Path string }                                    *)
(*       } `config:",nogroup"`                                             *)
(*       SSL   struct{ CA string } `config:"ssl,deprecated:tls"`           *)
(*       Old   string `config:"old,deprecated"`                            *)
(*   }                                                                     *)

AuthT == StructOf(<<SF(<<"A", "d", "d", "r">>, <<>>, T("string")), SF(<<"T", "L", "S">>, <<>>, T("bool"))>>)
SftpT == StructOf(<<SF(<<"A", "d", "d", "r">>, <<>>, T("string"))>>)
DiskT == StructOf(<<SF(<<"P", "a", "t", "h">>, <<>>, T("string"))>>)
StoreT == StructOf(<<SF(<<"S", "F", "T", "P">>, <<>>, SftpT), SF(<<"D", "i", "s", "k">>, <<>>, DiskT)>>)
CaT == StructOf(<<SF(<<"C", "A">>, <<>>, T("string"))>>)

ConfigT ==
    StructOf(<<SF(<<"N", "a", "m", "e">>, <<>>, T("string")),
               SF(<<"P", "o", "r", "t">>, <<"p", "o", "r", "t">>, T("int64")),
               SF(<<"L", "o", "g">>, <<>>, MapOf(T("string"), T("string"))),
               SF(<<"A", "u", "t", "h">>, <<>>, MapOf(T("string"), AuthT)),
               SF(<<"S", "t", "o", "r", "e">>, <<",", "n", "o", "g", "r", "o", "u", "p">>, StoreT),
               SF(<<"S", "S", "L">>, <<"s", "s", "l", ",", "d", "e", "p", "r", "e", "c", "a", "t", "e", "d", ":", "t", "l", "s">>, CaT),
               SF(<<"O", "l", "d">>, <<"o", "l", "d", ",", "d", "e", "p", "r", "e", "c", "a", "t", "e", "d">>, T("string"))>>)

\* the statements the parameters of a run are drawn from
StrLit(v) == MkLit(NoPos, "StringLit", v)
IntLit(v) == MkLit(NoPos, "IntLit", v)
Plain(name, value) == MkParam(NoPos, MkName(NoPos, name), Nil, value)
Labelled(name, label, value) ==
    MkParam(NoPos, MkName(NoPos, name), MkName(NoPos, label), value)
Blk(params) == MkBlock(NoPos, params)

DecodePool ==
    << Plain(<<"n", "a", "m", "e">>, StrLit(<<"a">>)),                                  \* name "a"
       Plain(<<"p", "o", "r", "t">>, IntLit(<<"8", "0">>)),                                 \* port 80
       Plain(<<"p", "o", "r", "t">>, StrLit(<<"x">>)),                                  \* port "x"
       Labelled(<<"l", "o", "g">>, <<"d", "e", "b", "u", "g">>, StrLit(<<"f">>)),                       \* log debug "f"
       Labelled(<<"l", "o", "g">>, <<"i", "n", "f", "o">>, StrLit(<<"g">>)),                        \* log info "g"
       Labelled(<<"l", "o", "g">>, <<"d", "e", "b", "u", "g">>, StrLit(<<"h">>)),                       \* log debug "h"
       Labelled(<<"a", "u", "t", "h">>, <<"l", "d", "a", "p">>, Blk(<<Plain(<<"a", "d", "d", "r">>, StrLit(<<"x">>))>>)),
                                                                    \* auth ldap { addr "x" }
       Labelled(<<"a", "u", "t", "h">>, <<"s", "a", "m", "l">>,
                Blk(<<Plain(<<"a", "d", "d", "r">>, StrLit(<<"y">>)), Plain(<<"b", "o", "g", "u", "s">>, IntLit(<<"1">>))>>)),
                                                                    \* auth saml { addr "y"; bogus 1 }
       Labelled(<<"s", "t", "o", "r", "e">>, <<"s", "f", "t", "p">>, Blk(<<Plain(<<"a", "d", "d", "r">>, StrLit(<<"s">>))>>)),
                                                                    \* store sftp { addr "s" }
       Labelled(<<"s", "t", "o", "r", "e">>, <<"d", "i", "s", "k">>, Blk(<<Plain(<<"p", "a", "t", "h">>, StrLit(<<"p">>))>>)),
                                                                    \* store disk { path "p" }
       Plain(<<"s", "s", "l">>, Blk(<<Plain(<<"c", "a">>, StrLit(<<"c">>))>>)),             \* ssl { ca "c" }
       Plain(<<"S", "S", "L">>, Blk(<<Plain(<<"c", "a">>, StrLit(<<"d">>))>>)),             \* SSL { ca "d" }
       Plain(<<"o", "l", "d">>, StrLit(<<"v">>)),                                   \* old "v"
       Plain(<<"b", "o", "g", "u", "s">>, MkArray(NoPos, <<IntLit(<<"1">>), StrLit(<<"z">>)>>)), \* bogus [1, "z"]
       Labelled(<<"n", "a", "m", "e">>, <<"l", "b", "l">>, StrLit(<<"x">>)) >>                      \* name lbl "x"

\* the longest input of a decoder run, in parameters
MaxParams == 3

\* sequences over 1..n of length at most m
SeqsUpTo(n, m) == UNION {[1..k -> 1..n] : k \in 0..m}

sConf == <<"s", "e", "r", "v", "e", "r", ".", "c", "o", "n", "f">>

\* the parameters of a run: those of the pool at the chosen indices, each at
\* the line of its place in the file
Statements(pool, sel) ==
    [k \in DOMAIN sel |-> [pool[sel[k]] EXCEPT !.pos = Pos(sConf, k, 1)]]

NoParser == [off |-> 0]

InitDecode ==
    /\ pc = "decode"
    /\ d = [name |-> sConf, includes |-> FALSE, expands |-> EmptyMap, environ |-> EmptyMap]
    /\ typ = ConfigT
    /\ cfg0 = ZeroOf(ConfigT)
    /\ cfg = cfg0
    /\ \E sel \in SeqsUpTo(Len(DecodePool), MaxParams) :
          /\ nn = Statements(DecodePool, sel)
          /\ given = sel
    /\ idx = 1
    /\ errs = <<>>
    /\ ret = NotReturned
    /\ p = NoParser
    /\ fs = EmptyMap

SpecDecode == InitDecode /\ [][NextDecode]_vars

----------------------------------------------------------------------------
(* Claims on the decoder, checked under SpecDecode *)

\* the parameters decoded so far
Decoded == 1..(idx - 1)

IsStmt(k, name, label) ==
    /\ nn[k].Name.Value = name
    /\ IF label = <<>> THEN nn[k].Label = Nil
       ELSE nn[k].Label # Nil /\ nn[k].Label.Value = label

\* the decoded parameters named name, all of them labelled in DecodePool
Named(name) == {k \in Decoded : nn[k].Name.Value = name /\ nn[k].Label # Nil}

LastOfLabel(ks, k) == \A j \in ks : nn[j].Label.Value = nn[k].Label.Value => j <= k

\* the map field at index f holds exactly the labels of the decoded
\* parameters named name, each with the value of its last parameter
Grouped(f, name) ==
    LET ks == Named(name)
        elem == ConfigT.fields[f].Type.elem
    IN IF ks = {} THEN cfg[f] = NilMap
       ELSE /\ ~cfg[f].nil
            /\ DOMAIN cfg[f].m = {nn[k].Label.Value : k \in ks}
            /\ \A k \in ks :
                 LastOfLabel(ks, k) =>
                   cfg[f].m[nn[k].Label.Value] = decodeValue(d, elem, nn[k].Value, <<>>).pv.x

\* C1: the parameters that share a name and carry labels are grouped in the
\* string-keyed map field of that name: its key set is the set of their
\* labels, each value is what the operand of the last parameter with that
\* label decodes to on its own, and a later label removes no earlier entry.
C1_LabelGrouping ==
    /\ Grouped(3, <<"l", "o", "g">>)
    /\ Grouped(4, <<"a", "u", "t", "h">>)

\* two parameters of one name with distinct labels have been decoded
C1_Witness ==
    /\ pc = "done" /\ ret = NoErr
    /\ \E j, k \in Named(<<"l", "o", "g">>) : nn[j].Label.Value # nn[k].Label.Value
    /\ Cardinality(DOMAIN cfg[3].m) = 2

\* C2: a labelled parameter of the nogroup struct field Store is decoded as
\* the parameter named by its label against the nested struct, in place:
\* `store sftp { addr "s" }` sets Store.SFTP.Addr, `store disk { path "p" }`
\* sets Store.Disk.Path, and neither resets what the other has set.
C2_NoGroup ==
    cfg[5] = << << IF \E k \in Decoded : IsStmt(k, <<"s", "t", "o", "r", "e">>, <<"s", "f", "t", "p">>) THEN <<"s">> ELSE <<>> >>,
                << IF \E k \in Decoded : IsStmt(k, <<"s", "t", "o", "r", "e">>, <<"d", "i", "s", "k">>) THEN <<"p">> ELSE <<>> >> >>

\* both labels have been decoded, sftp first
C2_Witness ==
    /\ pc = "done" /\ ret = NoErr
    /\ \E j, k \in Decoded : j < k /\ IsStmt(j, <<"s", "t", "o", "r", "e">>, <<"s", "f", "t", "p">>) /\ IsStmt(k, <<"s", "t", "o", "r", "e">>, <<"d", "i", "s", "k">>)
    /\ cfg[5] = << <<<<"s">>>>, <<<<"p">>>> >>

\* C3: a parameter whose name matches no field is skipped: no error, no
\* diagnostic, the loop goes on and no field changes; inside a block decoded
\* into a struct the value is the one of the block without that parameter.
C3_UnknownKey ==
    [][/\ (pc = "decode" /\ idx <= Len(nn) /\ IsStmt(idx, <<"b", "o", "g", "u", "s">>, <<>>))
          => (cfg' = cfg /\ errs' = errs /\ ret' = ret /\ pc' = pc /\ idx' = idx + 1)
       /\ (pc = "decode" /\ idx <= Len(nn) /\ IsStmt(idx, <<"a", "u", "t", "h">>, <<"s", "a", "m", "l">>))
          => (/\ <<"s", "a", "m", "l">> \in DOMAIN cfg'[4].m
              /\ cfg'[4].m[<<"s", "a", "m", "l">>] = <<<<"y">>, FALSE>>
              /\ \A f \in DOMAIN cfg : f # 4 => cfg'[f] = cfg[f]
              /\ errs' = errs /\ ret' = ret /\ idx' = idx + 1)
      ]_vars

\* an unknown parameter has been skipped after a field was populated
C3_Witness ==
    /\ idx = 3
    /\ IsStmt(1, <<"n", "a", "m", "e">>, <<>>) /\ IsStmt(2, <<"b", "o", "g", "u", "s">>, <<>>)
    /\ cfg[1] = <<"a">>
    /\ ret = NotReturned

\* the diagnostic of a deprecated parameter written as name, with the
\* replacement repl when there is one
Diagnostic(k, name, repl) ==
    [pos |-> Pos(sConf, k, 1),
     msg |-> name \o <<" is deprecated">>
             \o (IF repl = <<>> THEN <<>> ELSE <<" use ">> \o repl \o <<" instead">>)]

Undecodable(k) ==
    \/ IsStmt(k, <<"p", "o", "r", "t">>, <<>>) /\ nn[k].Value.Type = "StringLit"
    \/ IsStmt(k, <<"n", "a", "m", "e">>, <<"l", "b", "l">>)

\* what the first k parameters, all decodable, leave in the struct
RECURSIVE Replay(_)
Replay(k) == IF k = 0 THEN cfg0 ELSE doDecode(d, typ, Replay(k - 1), nn[k], <<>>).rv

\* C6: Decode takes the parameters in source order and stops at the first
\* one that fails: its error is the result, the parameters before it keep
\* what they decoded and no parameter after it is decoded.
C6_FirstError ==
    pc = "done" =>
      LET bad == {k \in DOMAIN nn : Undecodable(k)}
      IN IF bad = {} THEN ret = NoErr /\ idx = Len(nn) + 1 /\ cfg = Replay(Len(nn))
         ELSE LET k == CHOOSE x \in bad : \A y \in bad : x <= y
              IN /\ idx = k
                 /\ ret.kind = "DecodeError"
                 /\ ret.Pos = Pos(sConf, k, 1)
                 /\ ret.Param = nn[k].Name.Value
                 /\ cfg = Replay(k - 1)

\* Decode failed on the second of three parameters; the first is decoded,
\* the third, `old "v"`, is not
C6_Witness ==
    /\ pc = "done" /\ ret # NoErr
    /\ Len(nn) = 3 /\ idx = 2
    /\ IsStmt(1, <<"n", "a", "m", "e">>, <<>>) /\ IsStmt(3, <<"o", "l", "d">>, <<>>)
    /\ cfg[1] = <<"a">> /\ cfg[7] = <<>> /\ errs = <<>>

----------------------------------------------------------------------------
(* Decode of one literal into one field: every kind of literal against     *)
(* every kind of target, the field a plain one or the element of a map     *)

\* the types of the target field
CoerceTargets ==
    <<T("string"), T("bool"), T("int"), T("int8"), T("int16"), T("int32"), T("int64"),
      T("uint"), T("uint8"), T("uint16"), T("uint32"), T("uint64"),
      T("float32"), T("float64"),
      AuthT, MapOf(T("string"), T("string")), SliceOf(T("string"))>>

\* integer literals about the bounds of the signed widths: the text, the
\* widths the number fits in, its 64-bit pattern when it fits in 64 bits,
\* and its sign
RangeLits ==
    <<[text |-> <<"3", "0", "0">>, fits |-> {16, 32, 64}, val |-> I64(300), neg |-> FALSE],
      [text |-> <<"-", "3", "0", "0">>, fits |-> {16, 32, 64}, val |-> I64(-300), neg |-> TRUE],
      [text |-> <<"4", "0", "0", "0", "0">>, fits |-> {32, 64}, val |-> I64(40000),
       neg |-> FALSE],
      [text |-> <<"3", "0", "0", "0", "0", "0", "0", "0", "0", "0">>, fits |-> {64},
       val |-> <<24064, 45776, 0, 0>>, neg |-> FALSE],
      [text |-> <<"-", "3", "0", "0", "0", "0", "0", "0", "0", "0", "0">>, fits |-> {64},
       val |-> Neg64(<<24064, 45776, 0, 0>>), neg |-> TRUE],
      [text |-> <<"9", "2", "2", "3", "3", "7", "2", "0", "3", "6", "8", "5", "4", "7", "7",
                  "5", "8", "0", "8">>, fits |-> {}, val |-> Zero64, neg |-> FALSE],
      [text |-> <<"-", "9", "2", "2", "3", "3", "7", "2", "0", "3", "6", "8", "5", "4", "7",
                  "7", "5", "8", "0", "9">>, fits |-> {}, val |-> Zero64, neg |-> TRUE],
      [text |-> <<"1", "2", "7">>, fits |-> {8, 16, 32, 64}, val |-> I64(127), neg |-> FALSE],
      [text |-> <<"-", "1", "2", "8">>, fits |-> {8, 16, 32, 64}, val |-> I64(-128),
       neg |-> TRUE],
      [text |-> <<"1", "2", "8">>, fits |-> {16, 32, 64}, val |-> I64(128), neg |-> FALSE]>>

\* one or two literals of every kind the scanner produces
KindLits ==
    <<StrLit(<<"a">>), IntLit(<<"7">>), IntLit(<<"-", "3">>), MkLit(NoPos, "FloatLit", <<"1", ".", "5">>),
      MkLit(NoPos, "BoolLit", <<"t", "r", "u", "e">>), MkLit(NoPos, "BoolLit", <<"f", "a", "l", "s", "e">>),
      MkLit(NoPos, "DurationLit", <<"2", "s">>), MkLit(NoPos, "SizeLit", <<"1", "K", "B">>)>>

\* the literals of the runs: those of KindLits, then those of RangeLits
CoerceLits == KindLits \o [i \in DOMAIN RangeLits |-> IntLit(RangeLits[i].text)]

\* a value of the type that is not its zero value
SampleOf(rt) ==
    CASE rt.kind = "string" -> <<"o", "l", "d">>
      [] rt.kind = "bool" -> TRUE
      [] rt.kind \in FloatKinds -> [neg |-> FALSE, int |-> <<"2">>, frac |-> <<"5">>]
      [] rt.kind = "map" -> [nil |-> FALSE, m |-> (<<"k">> :> <<"v">>)]
      [] rt.kind = "slice" -> [nil |-> FALSE, s |-> <<<<"e">>>>]
      [] rt.kind = "struct" -> <<<<"h">>, TRUE>>
      [] OTHER -> I64(5)

\* the struct decoded into: one field Val, of type t or map[string]t
CoerceT(t, labelled) ==
    StructOf(<<SF(<<"V", "a", "l">>, <<>>, IF labelled THEN MapOf(T("string"), t) ELSE t)>>)

\* the field before Decode: zero, or set by the caller
CoerceBefore(t, labelled, set) ==
    IF labelled
    THEN IF set THEN <<[nil |-> FALSE, m |-> (<<"w", "a", "s">> :> SampleOf(t))]>> ELSE <<NilMap>>
    ELSE IF set THEN <<SampleOf(t)>> ELSE <<ZeroOf(t)>>

\* `val <literal>` or `val key <literal>`
CoerceParam(l, labelled) ==
    IF labelled THEN Labelled(<<"v", "a", "l">>, <<"k", "e", "y">>, l) ELSE Plain(<<"v", "a", "l">>, l)

InitCoerce ==
    /\ pc = "decode"
    /\ d = [name |-> sConf, includes |-> FALSE, expands |-> EmptyMap, environ |-> EmptyMap]
    /\ \E k \in DOMAIN CoerceTargets, j \in DOMAIN CoerceLits, labelled, set \in BOOLEAN :
          /\ typ = CoerceT(CoerceTargets[k], labelled)
          /\ cfg0 = CoerceBefore(CoerceTargets[k], labelled, set)
          /\ cfg = CoerceBefore(CoerceTargets[k], labelled, set)
          /\ nn = Statements(<<CoerceParam(CoerceLits[j], labelled)>>, <<1>>)
          /\ given = <<k, j>>
    /\ idx = 1
    /\ errs = <<>>
    /\ ret = NotReturned
    /\ p = NoParser
    /\ fs = EmptyMap

SpecCoerce == InitCoerce /\ [][NextDecode]_vars

\* the coercion table: the kinds of target a kind of literal decodes into
InTable(lt, kind) ==
    CASE lt = "StringLit" -> kind = "string"
      [] lt = "IntLit" -> kind \in {"int", "int8", "int16", "int32", "int64"}
      [] lt = "FloatLit" -> kind \in {"float32", "float64"}
      [] lt = "BoolLit" -> kind = "bool"
      [] lt = "DurationLit" -> kind = "int64"
      [] lt = "SizeLit" -> kind = "int64"
      [] OTHER -> FALSE

\* the type the literal of the run is decoded as
CoerceTarget == IF nn[1].Label = Nil THEN typ.fields[1].Type ELSE typ.fields[1].Type.elem

OffTable == ~InTable(nn[1].Value.Type, CoerceTarget.kind)

\* C5: a literal whose kind the kind of the target does not admit makes
\* Decode return a decode error with the parameter's position and name, the
\* target type and the field's name, and the field keeps the value it had.
C5_CoercionFailure ==
    (pc = "done" /\ OffTable) =>
        /\ ret.kind = "DecodeError"
        /\ ret.Pos = Pos(sConf, 1, 1)
        /\ ret.Param = <<"v", "a", "l">>
        /\ ret.Type = CoerceTarget
        /\ ret.Field = <<"V", "a", "l">>
        /\ cfg = cfg0

\* the run decodes a literal of RangeLits into a signed integer
RangeRun ==
    /\ given[2] > Len(KindLits)
    /\ CoerceTarget.kind \in SignedKinds

RangeLit == RangeLits[given[2] - Len(KindLits)]

\* the width the claim gives the target kind: int counts as 32 bits
WidthOf(kind) ==
    CASE kind = "int8" -> 8
      [] kind = "int16" -> 16
      [] kind = "int64" -> 64
      [] OTHER -> 32

\* the greatest and the least number of a width, as 64-bit patterns
MaxOf(bits) ==
    CASE bits = 8 -> I64(127)
      [] bits = 16 -> I64(32767)
      [] bits = 32 -> <<Base - 1, 32767, 0, 0>>
      [] OTHER -> <<Base - 1, Base - 1, Base - 1, 32767>>
MinOf(bits) ==
    CASE bits = 8 -> I64(-128)
      [] bits = 16 -> I64(-32768)
      [] bits = 32 -> <<0, 32768, Base - 1, Base - 1>>
      [] OTHER -> <<0, 0, 0, 32768>>

\* the number, or the bound of the width nearest to it
Nearest(l, bits) ==
    IF bits \in l.fits THEN l.val ELSE IF l.neg THEN MinOf(bits) ELSE MaxOf(bits)

\* the value the run has stored: the field, or the entry of the label
RangeStored ==
    IF nn[1].Label = Nil THEN cfg[1] ELSE cfg[1].m[nn[1].Label.Value]

\* C29: an integer literal outside the range of the width of its target
\* kind (8, 16, 32 or 64 bits, 32 for int) is no decode error: Decode
\* returns nil and the value stored is the bound of that width nearest to
\* the number; a literal within the range is stored as it is.
C29_OutOfRangeClamped ==
    (pc = "done" /\ RangeRun) =>
        /\ ret = NoErr
        /\ RangeStored = Nearest(RangeLit, WidthOf(CoerceTarget.kind))

\* `val 300` has stored 127 in a field of kind int8
C29_Witness ==
    /\ pc = "done"
    /\ RangeRun
    /\ RangeLit.text = <<"3", "0", "0">>
    /\ CoerceTarget.kind = "int8"
    /\ nn[1].Label = Nil
    /\ ret = NoErr
    /\ cfg = <<I64(127)>>

\* C23: a decode error raised for a parameter with a label carries the
\* label, together with the parameter's position and name, the target type
\* and the name of the field.
C23_ErrorCarriesLabel ==
    (pc = "done" /\ ret.kind = "DecodeError" /\ nn[1].Label # Nil) =>
        /\ ret.Label = nn[1].Label.Value
        /\ ret.Pos = nn[1].pos
        /\ ret.Param = nn[1].Name.Value
        /\ ret.Type = CoerceTarget
        /\ ret.Field = <<"V", "a", "l">>

----------------------------------------------------------------------------
(* Decode of one string literal into a string field, under every set of   *)
(* registered expansion providers                                          *)

\* the longest string literal, in pieces
MaxPieces == 3

\* what a literal is made of: text, spans, a backslash, a rune of two bytes
InterpPieces ==
    <<<<"a", "-">>, <<"$", "{", "e", "n", "v", ":", "X", "}">>, <<"-", "b">>, <<"$", "{", "p", ":", "k", "}">>, <<"$", "{", "X", "}">>, <<"\\">>, <<"U+00E9">>, <<"$", "{", "v", "a", "u", "l", "t", ":", "b", "a", "d", "}">>>>

\* the providers: env maps X to Y; vault maps k to s and fails on bad
EnvProvider == [tab |-> (<<"X">> :> <<"Y">>), fails |-> {}]
VaultProvider == [tab |-> (<<"k">> :> <<"s">>), fails |-> {<<"b", "a", "d">>}]

\* the registries of Decoder.expands: none, env, env and vault, vault
InterpExpands ==
    <<EmptyMap,
      (<<"e", "n", "v">> :> EnvProvider),
      (<<"e", "n", "v">> :> EnvProvider) @@ (<<"v", "a", "u", "l", "t">> :> VaultProvider),
      (<<"v", "a", "u", "l", "t">> :> VaultProvider)>>

\* the struct decoded into and its field before Decode
HostT == StructOf(<<SF(<<"H", "o", "s", "t">>, <<>>, T("string"))>>)

InitInterp ==
    /\ pc = "decode"
    /\ \E e \in DOMAIN InterpExpands :
          d = [name |-> sConf, includes |-> FALSE, expands |-> InterpExpands[e],
               environ |-> (<<"X">> :> <<"Z">>)]
    /\ typ = HostT
    /\ cfg0 = <<<<"o", "l", "d">>>>
    /\ cfg = <<<<"o", "l", "d">>>>
    /\ \E sel \in SeqsUpTo(Len(InterpPieces), MaxPieces) :
          /\ nn = Statements(<<Plain(<<"h", "o", "s", "t">>, StrLit(Concat([k \in DOMAIN sel |-> InterpPieces[sel[k]]])))>>,
                             <<1>>)
          /\ given = sel
    /\ idx = 1
    /\ errs = <<>>
    /\ ret = NotReturned
    /\ p = NoParser
    /\ fs = EmptyMap

SpecInterp == InitInterp /\ [][NextDecode]_vars

\* the literal is plain text up to the span `${p:k}`
SpanOfP == \E i \in DOMAIN given : given[i] = 4 /\ \A j \in 1..(i - 1) : given[j] \in {1, 3}

SeveralSpans ==
    /\ \A i \in DOMAIN given : given[i] \in {1, 2, 3}
    /\ Cardinality({i \in DOMAIN given : given[i] = 2}) >= 2

\* the literal with every span `${env:X}` replaced by what env gives for X
SpansReplaced ==
    Concat([i \in DOMAIN given |->
               IF given[i] = 2 THEN CallExpand(d.expands[<<"e", "n", "v">>], <<"X">>).v
               ELSE InterpPieces[given[i]]])

\* C11: a string literal with two or more spans decodes to the literal with
\* every span replaced by the output its provider gives for the key of that
\* span alone
C11_SeveralSpans ==
    (pc = "done" /\ <<"e", "n", "v">> \in DOMAIN d.expands /\ SeveralSpans)
        => (ret = NoErr /\ cfg = <<SpansReplaced>>)

\* C12: with no expansion provider registered a string literal decodes to
\* its raw text unchanged, whatever the text
C12_NoProviderRawText ==
    (pc = "done" /\ DOMAIN d.expands = {}) => (ret = NoErr /\ cfg = <<nn[1].Value.Value>>)

\* the literal is plain text around one `\${X}`
EscapedSpan ==
    /\ \E i \in DOMAIN given : i < Len(given) /\ given[i] = 6 /\ given[i + 1] = 5
    /\ \A i \in DOMAIN given : given[i] \in {1, 3, 5, 6}
    /\ Cardinality({i \in DOMAIN given : given[i] \in {5, 6}}) = 2

\* the literal without its backslash
Unescaped == Concat([i \in DOMAIN given |-> IF given[i] = 6 THEN <<>> ELSE InterpPieces[given[i]]])

\* C13: with a provider registered, a `$` preceded by a backslash starts no
\* expansion: the raw text `\${X}` decodes to the text `${X}`
C13_BackslashEscapes ==
    (pc = "done" /\ DOMAIN d.expands # {} /\ EscapedSpan)
        => (ret = NoErr /\ cfg = <<Unescaped>>)

----------------------------------------------------------------------------
(* source, the reader under the scanner.  get returns the next rune, or -1 *)
(* (EOFRune) once the input is exhausted; unget steps back over the rune   *)
(* get returned last; startLit marks that rune as the start of a literal   *)
(* and stopLit returns the text from the mark up to the read position;     *)
(* getpos is the position of that rune; err hands (getpos, msg) to the     *)
(* error handler the source was built with.                                *)
(* The record of a source also holds the fields of the scanner that embeds *)
(* it, and ch, the rune the last get returned.                             *)

EOFRune == "EOF"

newSource(fname, text, eh) ==
    [name |-> fname, buf |-> text, r |-> 0, r0 |-> 0, mark |-> 0, ch |-> EOFRune,
     errs |-> eh]

srcGet(s) ==
    IF s.r < Len(s.buf)
    THEN [s EXCEPT !.r0 = s.r, !.r = s.r + 1, !.ch = s.buf[s.r + 1]]
    ELSE [s EXCEPT !.r0 = s.r, !.ch = EOFRune]

srcUnget(s) == [s EXCEPT !.r = s.r0]

srcStartLit(s) == [s EXCEPT !.mark = s.r0]

srcStopLit(s) == SubSeq(s.buf, s.mark + 1, s.r)

\* line and column, both from 1, of the rune at offset s.r0
srcGetpos(s) ==
    Pos(s.name,
        1 + Cardinality({k \in 1..s.r0 : s.buf[k] = "\n"}),
        s.r0 + 1 - (CHOOSE k \in 0..s.r0 :
                       /\ k = 0 \/ s.buf[k] = "\n"
                       /\ \A j \in (k + 1)..s.r0 : s.buf[j] # "\n"))

srcErr(s, msg) == [s EXCEPT !.errs = Append(@, [pos |-> srcGetpos(s), msg |-> msg])]

----------------------------------------------------------------------------
(* scanner *)

isLetter(r) ==
    r \in Range(LowerCase) \cup Range(UpperCase) \cup {"_", "U+00E9"}

RECURSIVE identLoop(_)
identLoop(s) == IF isLetter(s.ch) \/ isDigit(s.ch) THEN identLoop(srcGet(s)) ELSE s

identEnd(s) == [s EXCEPT !.nlsemi = TRUE, !.tok = "_Name", !.lit = srcStopLit(s)]

\* scanner.ident
ident(s) == identEnd(srcUnget(identLoop(srcGet(srcStartLit(s)))))

\* the loop of scanner.number; the type it settles on is left in typ
RECURSIVE numberLoop(_, _)
numberLoop(s, isFloat) ==
    IF isDigit(s.ch) THEN numberLoop(srcGet(s), isFloat)
    ELSE IF s.ch = "." /\ isFloat
    THEN [srcErr(s, <<"invalid point in float">>) EXCEPT !.typ = "FloatLit"]
    ELSE IF s.ch = "." THEN numberLoop(srcGet(s), TRUE)
    ELSE [s EXCEPT !.typ = IF isFloat THEN "FloatLit" ELSE "IntLit"]

numberEnd(s) == [s EXCEPT !.nlsemi = TRUE, !.tok = "_Literal", !.lit = srcStopLit(s)]

\* scanner.number
number(s) == numberEnd(srcUnget(numberLoop(srcGet(srcStartLit(s)), FALSE)))

\* scanner.go:163-172: a K, M, G or T after a number, s read one rune further
suffixB(s, unit) ==
    IF s.ch = "B"
    THEN [s EXCEPT !.typ = "SizeLit", !.lit = @ \o <<unit, "B">>]
    ELSE srcUnget(s)

\* scanner.go:149-175: the suffix of a number, s read one rune past it
suffix(s) ==
    IF s.ch \in {"s", "m", "h"}
    THEN [s EXCEPT !.typ = "DurationLit", !.lit = Append(@, s.ch)]
    ELSE IF s.ch = "B" THEN [s EXCEPT !.typ = "SizeLit", !.lit = Append(@, s.ch)]
    ELSE IF s.ch \in {"K", "M", "G", "T"} THEN suffixB(srcGet(s), s.ch)
    ELSE srcUnget(s)

\* the loop of scanner.string; it does not end at the end of the input
RECURSIVE stringLoop(_)
RECURSIVE stringEscape(_)
stringLoop(s) ==
    IF s.ch = "\"" THEN s
    ELSE IF s.ch = "\\" THEN stringEscape(srcGet(s))
    ELSE IF s.ch = "\n" THEN srcErr(s, <<"unexpected newline in string">>)
    ELSE stringLoop(srcGet(s))

stringEscape(s) == IF s.ch = "\"" THEN stringLoop(srcGet(s)) ELSE stringLoop(s)

stringEnd(s) ==
    [s EXCEPT !.nlsemi = TRUE, !.tok = "_Literal", !.typ = "StringLit",
              !.lit = Slice(srcStopLit(s), 1, Len(srcStopLit(s)) - 1)]

\* scanner.string
string(s) == stringEnd(stringLoop(srcGet(srcStartLit(s))))

RECURSIVE skipSpace(_, _)
skipSpace(s, nlsemi) ==
    IF s.ch \in {" ", "\t", "\r"} \/ (s.ch = "\n" /\ ~nlsemi)
    THEN skipSpace(srcGet(s), nlsemi)
    ELSE s

\* scanner.go:133-135; it does not end at the end of the input
RECURSIVE skipComment(_)
skipComment(s) == IF s.ch # "\n" THEN skipComment(srcGet(s)) ELSE s

RECURSIVE redo(_, _)

\* scanner.go:141-201: the token that starts at the rune just read
scanToken(s, nlsemi) ==
    IF isLetter(s.ch) THEN ident(s)
    ELSE IF isDigit(s.ch) \/ s.ch = "-" THEN suffix(srcGet(number(s)))
    ELSE CASE s.ch = EOFRune -> [s EXCEPT !.tok = "_EOF"]
           [] s.ch \in {"\n", ";"} -> [s EXCEPT !.tok = "_Semi"]
           [] s.ch = "," -> [s EXCEPT !.tok = "_Comma"]
           [] s.ch = "{" -> [s EXCEPT !.tok = "_Lbrace"]
           [] s.ch = "}" -> [s EXCEPT !.nlsemi = TRUE, !.tok = "_Rbrace"]
           [] s.ch = "[" -> [s EXCEPT !.tok = "_Lbrack"]
           [] s.ch = "]" -> [s EXCEPT !.nlsemi = TRUE, !.tok = "_Rbrack"]
           [] s.ch = "\"" -> string(s)
           [] OTHER -> redo(srcErr(s, <<"unexpected token ", s.ch>>), nlsemi)

\* scanner.go:132-139
scanRune(s, nlsemi) ==
    IF s.ch = "#" THEN redo(skipComment(s), nlsemi)
    ELSE scanToken([s EXCEPT !.pos = srcGetpos(s)], nlsemi)

\* scanner.next from the label redo, nlsemi the flag as next found it
redo(s, nlsemi) ==
    scanRune(skipSpace(srcGet([s EXCEPT !.tok = "", !.lit = <<>>, !.typ = ""]), nlsemi),
             nlsemi)

\* scanner.next
next(s) == redo([s EXCEPT !.nlsemi = FALSE], s.nlsemi)

newScanner(src) ==
    next(src @@ [nlsemi |-> FALSE, pos |-> NoPos, tok |-> "", typ |-> "", lit |-> <<>>])

----------------------------------------------------------------------------
(* parser.  A parser is the record of its scanner with errc, includes and  *)
(* inctab; n holds what the method that ran last returned, nn the local nn *)
(* of parse, and opened the names handed to os.Open so far, in order.      *)

tokString(tok) ==
    CASE tok = "_EOF" -> "eof"
      [] tok = "_Name" -> "name"
      [] tok = "_Literal" -> "literal"
      [] tok = "_Semi" -> "newline"
      [] tok = "_Comma" -> "comma"
      [] tok = "_Lbrace" -> "{"
      [] tok = "_Rbrace" -> "}"
      [] tok = "_Lbrack" -> "["
      [] OTHER -> "]"

\* the parser literal of Decoder.Decode and of parser.include
newParser(fname, text, eh, includes, inctab, opened) ==
    newScanner(newSource(fname, text, eh))
        @@ [errc |-> 0, includes |-> includes, inctab |-> inctab, opened |-> opened,
            n |-> Nil, nn |-> <<>>]

errAt(pr, pos, msg) ==
    [pr EXCEPT !.errc = @ + 1, !.errs = Append(@, [pos |-> pos, msg |-> msg])]

err(pr, msg) == errAt(pr, pr.pos, msg)

expected(pr, tok) == err(pr, <<"expected ", tokString(tok)>>)

unexpected(pr, tok) == err(pr, <<"unexpected ", tokString(tok)>>)

\* parser.want, with the parser.got it calls
want(pr, tok) == IF pr.tok = tok THEN next(pr) ELSE expected(pr, tok)

\* advance that stops at the end of the input only
RECURSIVE advance_toEOF(_, _)
advance_toEOF(pr, follow) ==
    IF pr.tok = "_EOF" THEN pr ELSE advance_toEOF(next(pr), follow)

\* advance that goes past the token it was to stop at
RECURSIVE advance_pastFollow(_, _)
advance_pastFollow(pr, follow) ==
    IF pr.tok = "_EOF" THEN pr
    ELSE IF pr.tok \in follow THEN next(pr)
    ELSE advance_pastFollow(next(pr), follow)

RECURSIVE advance(_, _)
advance(pr, follow) ==
    IF pr.tok \in follow \cup {"_EOF"} THEN pr ELSE advance(next(pr), follow)

literal(pr) ==
    IF pr.tok # "_Literal" THEN [pr EXCEPT !.n = Nil]
    ELSE [next(pr) EXCEPT !.n = MkLit(pr.pos, pr.typ, pr.lit)]

\* parser.name
parseName(pr) ==
    IF pr.tok # "_Name" THEN [pr EXCEPT !.n = Nil]
    ELSE [next(pr) EXCEPT !.n = MkName(pr.pos, pr.lit)]

RECURSIVE list(_, _, _, _)
RECURSIVE operand(_)
RECURSIVE param(_)

\* what the function block hands to list leaves in n when it appends nothing
NoNode == [node |-> "none"]

\* parser.go:96-103: the function block hands to list
blockItem(pr) ==
    IF pr.tok # "_Name"
    THEN [advance(expected(pr, "_Name"), {"_Rbrace", "_Semi"}) EXCEPT !.n = NoNode]
    ELSE param(pr)

\* parser.go:81-84: the separator after parse()
listNext(pr, sep, end) ==
    IF pr.tok = sep THEN next(pr)
    ELSE IF pr.tok # end
    THEN next(err(pr, <<"expected ", tokString(sep), " or ", tokString(end)>>))
    ELSE pr

\* parser.go:81-84: after parse(), which left its node in pr.n
listSep(pr, sep, end, acc) ==
    list(listNext(pr, sep, end), sep, end, IF pr.n = NoNode THEN acc ELSE Append(acc, pr.n))

\* parser.go:79: parse(), the function of block or that of arr
listItem(pr, end) == IF end = "_Rbrace" THEN blockItem(pr) ELSE operand(pr)

\* parser.list(sep, end, parse): parse is the function of block when end is
\* _Rbrace and that of arr otherwise; acc is what parse has appended so far,
\* left in n at the end
list(pr, sep, end, acc) ==
    IF pr.tok # end /\ pr.tok # "_EOF"
    THEN listSep(listItem(pr, end), sep, end, acc)
    ELSE [want(pr, end) EXCEPT !.n = acc]

\* parser.go:92-104: block after its want(_Lbrace)
blockBody(pr) == [list(pr, "_Semi", "_Rbrace", <<>>) EXCEPT !.n = MkBlock(pr.pos, @)]

block(pr) == blockBody(want(pr, "_Lbrace"))

\* parser.go:110-117: arr after its want(_Lbrack)
arrBody(pr) == [list(pr, "_Comma", "_Rbrack", <<>>) EXCEPT !.n = MkArray(pr.pos, @)]

arr(pr) == arrBody(want(pr, "_Lbrack"))

sTrue == <<"t", "r", "u", "e">>
sFalse == <<"f", "a", "l", "s", "e">>

\* parser.go:131-144: operand after its name()
operandName(pr) ==
    IF pr.n.Value # sTrue /\ pr.n.Value # sFalse
    THEN [advance(unexpected(pr, "_Name"), {"_Semi"}) EXCEPT !.n = Nil]
    ELSE [pr EXCEPT !.n = MkLit(@.pos, "BoolLit", @.Value)]

operand(pr) ==
    CASE pr.tok = "_Literal" -> literal(pr)
      [] pr.tok = "_Lbrace" -> block(pr)
      [] pr.tok = "_Lbrack" -> arr(pr)
      [] pr.tok = "_Name" -> operandName(parseName(pr))
      [] OTHER -> [advance(unexpected(pr, pr.tok), {"_Semi"}) EXCEPT !.n = Nil]

\* parser.go:199-201: pr after operand()
paramValue(pr, pos, nm, label) == [pr EXCEPT !.n = MkParam(pos, nm, label, @)]

\* the second identifier kept as the label whatever its text
paramLabel_keepLabel(pr, pos, nm) ==
    IF pr.tok = "_Semi"
    THEN [pr EXCEPT !.n = MkParam(pos, nm, @, Nil)]
    ELSE paramValue(operand(pr), pos, nm, pr.n)

\* parser.go:184-197: pr after the name() of the label
paramLabel(pr, pos, nm) ==
    IF pr.tok = "_Semi"
    THEN [pr EXCEPT !.n = IF @.Value = sTrue \/ @.Value = sFalse
                          THEN MkParam(pos, nm, Nil, MkLit(@.pos, "BoolLit", @.Value))
                          ELSE MkParam(pos, nm, @, Nil)]
    ELSE paramValue(operand(pr), pos, nm, pr.n)

\* parser.go:183-201: pr after the name() of the name
paramName(pr, pos) ==
    IF pr.tok = "_Name" THEN paramLabel(parseName(pr), pos, pr.n)
    ELSE paramValue(operand(pr), pos, pr.n, Nil)

param(pr) ==
    IF pr.tok # "_Name"
    THEN [advance(unexpected(pr, pr.tok), {"_Semi"}) EXCEPT !.n = Nil]
    ELSE paramName(parseName(pr), pr.pos)

RECURSIVE parse(_)

\* what parse returns: parser.go:307-310
parseReturn(pr) ==
    IF pr.errc > 0
    THEN [nn |-> <<>>, err |-> ErrorsNew(<<"parser encountered ", pr.errc, " error(s)">>)]
    ELSE [nn |-> pr.nn, err |-> NoErr]

RECURSIVE includeFiles(_, _, _)

\* parser.go:273-281: inner is the parser of the included file after its
\* parse, which shares the handler, inctab and the file system with pr
includeParsed(pr, files, k, inner, res) ==
    IF res.err # NoErr
    THEN err([pr EXCEPT !.errs = inner.errs, !.inctab = inner.inctab,
                        !.opened = inner.opened], res.err.msg)
    ELSE includeFiles([pr EXCEPT !.errs = inner.errs, !.inctab = inner.inctab,
                                 !.opened = inner.opened, !.n = @ \o res.nn],
                      files, k + 1)

includeInner(pr, files, k, inner) == includeParsed(pr, files, k, inner, parseReturn(inner))

\* parser.go:253-282: os.Open(file) and the parse of the file
includeOpen(pr, files, k) ==
    IF files[k] \notin DOMAIN fs
    THEN err([pr EXCEPT !.opened = Append(@, files[k])],
             <<"open ", files[k], ": no such file or directory">>)
    ELSE includeInner(pr, files, k,
                      parse(newParser(files[k], fs[files[k]], pr.errs, pr.includes,
                                      pr.inctab, Append(pr.opened, files[k]))))

\* the loop over the names where every name is treated as another file
includeFiles_noSelfCheck(pr, files, k) ==
    IF k > Len(files) THEN pr
    ELSE IF files[k] \in DOMAIN pr.inctab
    THEN err(pr, <<"already included from ", pr.inctab[files[k]]>>)
    ELSE includeOpen([pr EXCEPT !.inctab = (files[k] :> pr.name) @@ @], files, k)

\* the loop over the names where the report names the including file
includeFiles_fromIncluder(pr, files, k) ==
    IF k > Len(files) THEN pr
    ELSE IF files[k] = pr.name THEN err(pr, <<"cannot include self">>)
    ELSE IF files[k] \in DOMAIN pr.inctab
    THEN err(pr, <<"already included from ", pr.name>>)
    ELSE includeOpen([pr EXCEPT !.inctab = (files[k] :> pr.name) @@ @], files, k)

\* parser.go:239-283: the loop over the file names, from the k-th; n holds
\* the nodes included so far
includeFiles(pr, files, k) ==
    IF k > Len(files) THEN pr
    ELSE IF files[k] = pr.name THEN err(pr, <<"cannot include self">>)
    ELSE IF files[k] \in DOMAIN pr.inctab
    THEN err(pr, <<"already included from ", pr.inctab[files[k]]>>)
    ELSE includeOpen([pr EXCEPT !.inctab = (files[k] :> pr.name) @@ @], files, k)

\* parser.go:219-232: the loop over the items of the array, from the k-th
RECURSIVE includeItems(_, _, _, _)
includeItems(pr, items, k, files) ==
    IF k > Len(items) THEN includeFiles([pr EXCEPT !.n = <<>>], files, 1)
    ELSE IF items[k].node # "lit" \/ items[k].Type # "StringLit"
    THEN includeFiles(
             [err(pr, <<"expected string literal in include array">>) EXCEPT !.n = <<>>],
             files, 1)
    ELSE includeItems(pr, items, k + 1, Append(files, items[k].Value))

\* parser.go:217-232: include after its arr()
includeArr(pr) == includeItems(pr, pr.n.Items, 1, <<>>)

\* parser.include: n holds the nodes it returns
include(pr) ==
    CASE pr.tok = "_Literal" /\ pr.typ # "StringLit" ->
           [err(pr, <<"unexpected ", LitTypeString(pr.typ)>>) EXCEPT !.n = <<>>]
      [] pr.tok = "_Literal" /\ pr.typ = "StringLit" ->
           includeFiles([literal(pr) EXCEPT !.n = <<>>], <<pr.lit>>, 1)
      [] pr.tok = "_Lbrack" -> includeArr(arr(pr))
      [] OTHER -> [unexpected(pr, pr.tok) EXCEPT !.n = <<>>]

sInclude == <<"i", "n", "c", "l", "u", "d", "e">>

\* the included nodes put before the nodes parsed so far
appendNodes_first(pr) == [pr EXCEPT !.nn = pr.n \o @]

\* parser.go:300: nn = append(nn, p.include()...), pr after include()
appendNodes(pr) == [pr EXCEPT !.nn = @ \o pr.n]

\* parser.go:305: nn = append(nn, p.param()), pr after param()
appendNode(pr) == [pr EXCEPT !.nn = Append(@, pr.n)]

\* parser.go:289-305: one turn of the loop of parse
parseTurn(pr) ==
    IF pr.tok = "_Semi" THEN next(pr)
    ELSE IF pr.includes /\ pr.tok = "_Name" /\ pr.lit = sInclude
    THEN appendNodes(include(next(pr)))
    ELSE appendNode(param(pr))

\* the loop of parser.parse
parse(pr) == IF pr.tok # "_EOF" THEN parse(parseTurn(pr)) ELSE pr

----------------------------------------------------------------------------
(* Decoder.Decode up to the return of parse: the parser is built over the  *)
(* reader, then parse runs its loop, one turn a step, and returns.         *)

ParseStep ==
    /\ pc = "parse"
    /\ p.tok # "_EOF"
    /\ \E r \in {parseTurn(p)} :
          /\ p' = r
          /\ errs' = r.errs
    /\ UNCHANGED <<pc, d, typ, cfg, cfg0, nn, idx, ret, fs, given>>

ParseReturn ==
    /\ pc = "parse"
    /\ p.tok = "_EOF"
    /\ \E r \in {parseReturn(p)} :
          /\ nn' = r.nn
          /\ ret' = r.err
    /\ pc' = "parsed"
    /\ UNCHANGED <<d, typ, cfg, cfg0, idx, errs, p, fs, given>>

NextParse == ParseStep \/ ParseReturn

----------------------------------------------------------------------------
(* The files of the parser runs.  The file given to Decode is server.conf, *)
(* made of lines of ParsePool; a.conf and b.conf can be included, z.conf   *)
(* does not exist.                                                         *)

sAConf == <<"a", ".", "c", "o", "n", "f">>
sBConf == <<"b", ".", "c", "o", "n", "f">>
sZConf == <<"z", ".", "c", "o", "n", "f">>

\* a string literal as it is written
Quoted(s) == <<"\"">> \o s \o <<"\"">>

\* include [ "a", "b", ... ]
IncludeLine(names) ==
    sInclude \o <<" ", "[">>
    \o Concat([k \in DOMAIN names |->
                  (IF k > 1 THEN <<",", " ">> ELSE <<>>) \o Quoted(names[k])])
    \o <<"]", "\n">>

\* the files the include statement of line k of the pool names, in order
Included(k) ==
    CASE k = 9 -> <<sConf>>
      [] k = 10 -> <<sAConf, sConf, sBConf>>
      [] k = 11 -> <<sZConf, sConf>>
      [] k = 12 -> <<sBConf>>
      [] OTHER -> <<>>

ParsePool ==
    << <<"a", " ", "1", "\n">>,                                \* a 1
       <<"b", " ", "\"", "x", "\"", "\n">>,                    \* b "x"
       <<"c", " ", "@", " ", "2", "\n">>,                      \* c @ 2
       <<"d", " ", "\"", "y", "\n">>,                          \* d "y
       <<"e", " ", "1", ".", "2", ".", "3", "\n">>,            \* e 1.2.3
       <<"1", " ", "a", "\n">>,                                \* 1 a
       <<"f", " ", "g", " ", "h", "\n">>,                      \* f g h
       <<"k", " ", "[", "1", " ", "2", "]", "\n">>,            \* k [1 2]
       sInclude \o <<" ">> \o Quoted(sConf) \o <<"\n">>,       \* include "server.conf"
       IncludeLine(Included(10)),       \* include ["a.conf", "server.conf", "b.conf"]
       IncludeLine(Included(11)),       \* include ["z.conf", "server.conf"]
       sInclude \o <<" ">> \o Quoted(sBConf) \o <<"\n">>       \* include "b.conf"
    >>

\* a.conf:  x 1
\* b.conf:  include "b.conf"
\*          y 2
IncludeFiles ==
    (sAConf :> <<"x", " ", "1", "\n">>)
    @@ (sBConf :> sInclude \o <<" ">> \o Quoted(sBConf) \o <<"\n", "y", " ", "2", "\n">>)

\* the longest file given to Decode, in lines
MaxLines == 3

\* the lines of the files without include statements, and of those with
SyntaxLines == 1..8
IncludeLines == {1} \cup 9..12

\* sequences over S of length at most m
SeqsOver(S, m) == UNION {[1..k -> S] : k \in 0..m}

\* the files given to Decode, as the lines they are made of, and whether the
\* decoder has includes enabled
ParseRuns ==
    (SeqsOver(SyntaxLines, MaxLines) \X {FALSE})
    \cup (SeqsOver(IncludeLines, MaxLines) \X BOOLEAN)

\* the text of the file: the chosen lines of the pool, in order
RECURSIVE FileText(_)
FileText(sel) == IF sel = <<>> THEN <<>> ELSE ParsePool[Head(sel)] \o FileText(Tail(sel))

InitParse ==
    /\ pc = "parse"
    /\ \E run \in ParseRuns :
          /\ given = run[1]
          /\ d = [name |-> sConf, includes |-> run[2], expands |-> EmptyMap,
                  environ |-> EmptyMap]
          /\ fs = (sConf :> FileText(run[1])) @@ IncludeFiles
          /\ \E r \in {newParser(sConf, FileText(run[1]), <<>>, run[2], EmptyMap, <<>>)} :
                /\ p = r
                /\ errs = r.errs
    /\ typ = ConfigT
    /\ cfg0 = ZeroOf(ConfigT)
    /\ cfg = cfg0
    /\ nn = <<>>
    /\ idx = 1
    /\ ret = NotReturned

SpecParse == InitParse /\ [][NextParse]_vars

----------------------------------------------------------------------------
(* Claims on the parser, checked under SpecParse *)

\* C7: parse returns a failure exactly when at least one error was handed to
\* the error handler during the parse, be it a scan error, a syntax error or
\* an include error
C7_FailureIffReported == pc = "parsed" => ((ret # NoErr) <=> (errs # <<>>))

\* the lines of the pool that are a malformed parameter, and those that are
\* a valid one with the parameter they hold
MalformedLines == {6, 7, 8}
ValidParams ==
    (1 :> [name |-> <<"a">>, type |-> "IntLit", value |-> <<"1">>])
    @@ (2 :> [name |-> <<"b">>, type |-> "StringLit", value |-> <<"x">>])

\* n is the parameter e, written on the given line of the file
IsParamOf(n, line, e) ==
    /\ n.node = "param"
    /\ n.pos.line = line
    /\ n.Name.Value = e.name
    /\ n.Label = Nil
    /\ n.Value.node = "lit"
    /\ n.Value.Type = e.type
    /\ n.Value.Value = e.value

\* parse has returned from a file of one malformed parameter followed by
\* valid ones
MalformedThenValid ==
    /\ pc = "parsed"
    /\ given # <<>>
    /\ given[1] \in MalformedLines
    /\ \A k \in 2..Len(given) : given[k] \in DOMAIN ValidParams

\* every valid parameter of the file is in the node sequence seq
ContainsValid(seq) ==
    \A k \in 2..Len(given) :
        \E i \in DOMAIN seq : IsParamOf(seq[i], k, ValidParams[given[k]])

IncludeAt == pc = "parse" /\ p.includes /\ p.tok = "_Name" /\ p.lit = sInclude

\* the names the step hands to os.Open
Opens == {p'.opened[i] : i \in (Len(p.opened) + 1)..Len(p'.opened)}

\* the step hands msg to the error handler at a position of the file fname
Reports(msg, fname) ==
    \E i \in (Len(errs) + 1)..Len(errs') :
        errs'[i].msg = msg /\ errs'[i].pos.name = fname

\* the names listed before and after the first fname in names
Before(names, fname) ==
    {names[i] : i \in {i \in DOMAIN names : \A j \in 1..i : names[j] # fname}}
After(names, fname) ==
    {names[i] : i \in {i \in DOMAIN names : \E j \in 1..(i - 1) : names[j] = fname}}

\* an include of the file f by the parser would succeed
Includable(f) ==
    /\ f \in DOMAIN fs
    /\ f \notin DOMAIN p.inctab
    /\ f # p.name
    /\ parseReturn(parse(newParser(f, fs[f], <<>>, p.includes,
                                   (f :> p.name) @@ p.inctab, <<>>))).err = NoErr

\* the include statement at hand names the file being parsed
NamesSelf(k) == IncludeAt /\ p.pos.line = k /\ p.name \in Range(Included(given[k]))

\* the file given to Decode has an include statement that names it
SelfIncluding == d.includes /\ \E k \in DOMAIN given : d.name \in Range(Included(given[k]))

\* C9 as stated: an include statement naming the file being parsed reports
\* `cannot include self`, does not open that file, skips the files listed
\* after it, and the parse ends in a failure
C9_SelfIncludeAlways ==
    [][/\ \A k \in DOMAIN given :
              NamesSelf(k) =>
                  /\ Reports(<<"cannot include self">>, p.name)
                  /\ p.name \notin Opens
                  /\ \A f \in After(Included(given[k]), p.name) : f \notin Opens
                  /\ p'.errc > p.errc
       /\ (SelfIncluding /\ pc = "parse" /\ pc' = "parsed") => ret' # NoErr]_vars

\* C9: an include statement naming the file being parsed reports `cannot
\* include self` when every file listed before that name can be included
\* without error; in every case it does not open that file, it skips the
\* files listed after it, and the parse ends in a failure.  The same holds
\* for the included file b.conf, which names itself.
C9_SelfInclude ==
    [][/\ \A k \in DOMAIN given :
              NamesSelf(k) =>
                  /\ (\A f \in Before(Included(given[k]), p.name) : Includable(f))
                         => Reports(<<"cannot include self">>, p.name)
                  /\ p.name \notin Opens
                  /\ \A f \in After(Included(given[k]), p.name) : f \notin Opens
                  /\ p'.errc > p.errc
       /\ sBConf \in Opens =>
              /\ Reports(<<"cannot include self">>, sBConf)
              /\ Cardinality({i \in DOMAIN p'.opened : p'.opened[i] = sBConf}) = 1
              /\ p'.errc > p.errc
       /\ (SelfIncluding /\ pc = "parse" /\ pc' = "parsed") => ret' # NoErr]_vars

C9_Witness ==
    /\ pc = "parsed"
    /\ d.includes
    /\ given = <<10>>
    /\ p.opened = <<sAConf>>
    /\ \E i \in DOMAIN errs : errs[i].msg = <<"cannot include self">>
    /\ ret # NoErr

----------------------------------------------------------------------------
(* Decoder.Decode of a whole file: the parse, then the loop over the       *)
(* parameters it returned.  The files are made for one kind of operand at  *)
(* a time, each with the struct it is decoded into.                        *)

\* decode.go:456-462: parse has returned; its error ends Decode
DecodeParsed ==
    /\ pc = "parsed"
    /\ pc' = IF ret # NoErr THEN "done" ELSE "decode"
    /\ UNCHANGED <<d, typ, cfg, cfg0, nn, idx, errs, ret, p, fs, given>>

NextFile == NextParse \/ DecodeParsed \/ NextDecode

\* the longest number of a size literal, in digits
MaxDigits == 2

SizeDigits == {"0", "2", "5"}

SizeUnits == <<<<"B">>, <<"K", "B">>, <<"M", "B">>, <<"G", "B">>, <<"T", "B">>>>

\* the numbers of the size literals: short ones, and the two around the
\* largest number of terabytes that 64 bits hold
SizeNumbers ==
    (SeqsOver(SizeDigits, MaxDigits) \ {<<>>})
    \cup {<<"8", "3", "8", "8", "6", "0", "7">>, <<"8", "3", "8", "8", "6", "0", "8">>}

\* `val <n><unit>` into struct { Val int64 }, Val zero or set by the caller
SizeRuns ==
    {[family |-> "size", neg |-> neg, num |-> ds, unit |-> k,
      text |-> <<"v", "a", "l", " ">> \o (IF neg THEN <<"-">> ELSE <<>>) \o ds
                   \o SizeUnits[k] \o <<"\n">>,
      typ |-> CoerceT(T("int64"), FALSE),
      before |-> CoerceBefore(T("int64"), FALSE, set)] :
        neg \in BOOLEAN, ds \in SizeNumbers, k \in DOMAIN SizeUnits, set \in BOOLEAN}

DurationPairs == <<<<"1", "h">>, <<"3", "0", "m">>, <<"5", "s">>>>

\* struct { HourHalf time.Duration `config:"hour_half"` }
HourHalfT ==
    StructOf(<<SF(<<"H", "o", "u", "r", "H", "a", "l", "f">>,
                  <<"h", "o", "u", "r", "_", "h", "a", "l", "f">>, T("int64"))>>)

\* `hour_half 1h`, `hour_half 1h30m`, `hour_half 1h30m5s`
DurationRuns ==
    {[family |-> "duration", pairs |-> k,
      lit |-> Concat(SubSeq(DurationPairs, 1, k)),
      text |-> <<"h", "o", "u", "r", "_", "h", "a", "l", "f", " ">>
                   \o Concat(SubSeq(DurationPairs, 1, k)) \o <<"\n">>,
      typ |-> HourHalfT,
      before |-> <<IF set THEN I64(5) ELSE Zero64>>] :
        k \in DOMAIN DurationPairs, set \in BOOLEAN}

\* the longest array, in items
MaxItems == 2

\* the arrays of the runs, by kind of item: the type of the elements, the
\* texts of two items, the values they denote and the items that do not
\* decode as the type; 2KB is 2048 and 1m is 60 * 10^9 nanoseconds
ArrayKinds ==
    <<[elem |-> T("string"), items |-> <<Quoted(<<"a">>), Quoted(<<"b">>)>>,
       vals |-> <<<<"a">>, <<"b">>>>, bad |-> {}],
      [elem |-> T("int64"), items |-> <<<<"7">>, <<"-", "3">>>>, vals |-> <<I64(7), I64(-3)>>, bad |-> {}],
      [elem |-> T("int64"), items |-> <<<<"2", "K", "B">>, <<"1", "m">>>>,
       vals |-> <<I64(2048), <<22528, 63559, 13, 0>>>>, bad |-> {}],
      [elem |-> StructOf(<<SF(<<"S">>, <<>>, T("string"))>>),
       items |-> <<<<"{", "s", " ">> \o Quoted(<<"a">>) \o <<"}">>,
                   <<"{", "s", " ">> \o Quoted(<<"b">>) \o <<"}">>>>,
       vals |-> <<<<<<"a">>>>, <<<<"b">>>>>>, bad |-> {}],
      [elem |-> SliceOf(T("int64")), items |-> <<<<"[", "7", "]">>, <<"[", "3", ",", " ", "7", "]">>>>,
       vals |-> <<[nil |-> FALSE, s |-> <<I64(7)>>], [nil |-> FALSE, s |-> <<I64(3), I64(7)>>]>>, bad |-> {}],
      [elem |-> T("int64"), items |-> <<<<"7">>, Quoted(<<"a">>)>>, vals |-> <<I64(7), Zero64>>, bad |-> {2}]>>

\* the targets that are no sequence
NonSliceTargets == <<T("string"), T("int64"), MapOf(T("string"), T("string")), AuthT>>

\* the items of an array, separated by commas
RECURSIVE JoinItems(_)
JoinItems(items) ==
    IF items = <<>> THEN <<>>
    ELSE IF Len(items) = 1 THEN Head(items)
    ELSE Head(items) \o <<",", " ">> \o JoinItems(Tail(items))

ArrayText(items) == <<"v", "a", "l", " ", "[">> \o JoinItems(items) \o <<"]", "\n">>

\* `val [<items>]` into struct { Val []elem }, Val nil or holding one element
ArrayRuns ==
    {[family |-> "array", kind |-> k, sel |-> sel,
      text |-> ArrayText([i \in DOMAIN sel |-> ArrayKinds[k].items[sel[i]]]),
      typ |-> CoerceT(SliceOf(ArrayKinds[k].elem), FALSE),
      before |-> <<IF set THEN [nil |-> FALSE, s |-> <<ZeroOf(ArrayKinds[k].elem)>>]
                   ELSE ZeroOf(SliceOf(ArrayKinds[k].elem))>>] :
        k \in DOMAIN ArrayKinds, sel \in SeqsOver({1, 2}, MaxItems), set \in BOOLEAN}

\* `val [<items>]` into struct { Val t }, t no slice
NonSliceRuns ==
    {[family |-> "nonslice", kind |-> k, sel |-> sel,
      text |-> ArrayText([i \in DOMAIN sel |-> ArrayKinds[1].items[sel[i]]]),
      typ |-> CoerceT(NonSliceTargets[k], FALSE),
      before |-> CoerceBefore(NonSliceTargets[k], FALSE, set)] :
        k \in DOMAIN NonSliceTargets, sel \in SeqsOver({1, 2}, MaxItems), set \in BOOLEAN}

\* A string `config:"a"`, B string `config:"b"` and Skip string `config:"-"`
ExcludeFields ==
    [a |-> SF(<<"A">>, <<"a">>, T("string")), b |-> SF(<<"B">>, <<"b">>, T("string")),
     skip |-> SF(<<"S", "k", "i", "p">>, <<"-">>, T("string"))]

\* the struct with Skip declared first, between A and B, and last
ExcludeTypes ==
    <<StructOf(<<ExcludeFields.skip, ExcludeFields.a, ExcludeFields.b>>),
      StructOf(<<ExcludeFields.a, ExcludeFields.skip, ExcludeFields.b>>),
      StructOf(<<ExcludeFields.a, ExcludeFields.b, ExcludeFields.skip>>)>>

\* `a "x"`, `b "y"`, `Skip "z"`
ExcludeLines ==
    <<<<"a", " ">> \o Quoted(<<"x">>) \o <<"\n">>,
      <<"b", " ">> \o Quoted(<<"y">>) \o <<"\n">>,
      <<"S", "k", "i", "p", " ">> \o Quoted(<<"z">>) \o <<"\n">>>>

\* one or two of the lines into each of the structs, Skip holding `old`
ExcludeRuns ==
    {[family |-> "exclude", at |-> k, sel |-> sel,
      text |-> Concat([i \in DOMAIN sel |-> ExcludeLines[sel[i]]]),
      typ |-> ExcludeTypes[k],
      before |-> [i \in 1..3 |-> IF i = k THEN <<"o", "l", "d">> ELSE <<>>]] :
        k \in DOMAIN ExcludeTypes, sel \in SeqsOver(1..3, 2) \ {<<>>}}

\* what follows the name f of a parameter: a second identifier, the text
\* after it up to the end of the file, the kind of node of an operand in that
\* text (none when the text is a terminator), the type and text of an operand
\* that is a literal, and the type of the field F
SecondIdents ==
    <<[second |-> sTrue, rest |-> <<"\n">>, node |-> "none", lit |-> <<>>, type |-> T("bool")],
      [second |-> sFalse, rest |-> <<";">>, node |-> "none", lit |-> <<>>, type |-> T("bool")],
      [second |-> <<"g">>, rest |-> <<" ", "1", "\n">>, node |-> "lit", lit |-> <<"IntLit", <<"1">>>>,
       type |-> MapOf(T("string"), T("int64"))],
      [second |-> sTrue, rest |-> <<" ", "1", "\n">>, node |-> "lit", lit |-> <<"IntLit", <<"1">>>>,
       type |-> MapOf(T("string"), T("int64"))],
      [second |-> sFalse, rest |-> <<" ">> \o Quoted(<<"x">>) \o <<"\n">>, node |-> "lit",
       lit |-> <<"StringLit", <<"x">>>>,
       type |-> MapOf(T("string"), T("string"))],
      [second |-> <<"g">>, rest |-> <<" ", "t", "r", "u", "e", "\n">>, node |-> "lit",
       lit |-> <<"BoolLit", sTrue>>,
       type |-> MapOf(T("string"), T("bool"))],
      [second |-> sTrue, rest |-> <<" ", "f", "a", "l", "s", "e", "\n">>, node |-> "lit",
       lit |-> <<"BoolLit", sFalse>>,
       type |-> MapOf(T("string"), T("bool"))],
      [second |-> sTrue, rest |-> <<" ", "[", "1", "]", "\n">>, node |-> "array", lit |-> <<>>,
       type |-> MapOf(T("string"), SliceOf(T("int64")))],
      [second |-> sFalse, rest |-> <<" ", "{", "\n", "s", " ">> \o Quoted(<<"a">>) \o <<"\n", "}", "\n">>,
       node |-> "block", lit |-> <<>>, type |-> MapOf(T("string"), MapOf(T("string"), T("string")))]>>

\* `f <second><rest>` into struct { F type }, F zero or set by the caller
SecondRuns ==
    {[family |-> "second", k |-> k,
      text |-> <<"f", " ">> \o SecondIdents[k].second \o SecondIdents[k].rest,
      typ |-> StructOf(<<SF(<<"F">>, <<>>, SecondIdents[k].type)>>),
      before |-> <<IF set THEN SampleOf(SecondIdents[k].type) ELSE ZeroOf(SecondIdents[k].type)>>] :
        k \in DOMAIN SecondIdents, set \in BOOLEAN}

\* `f g`, `f g;` and `f { f g }` over three lines: a name and a second
\* identifier that is not true or false, then a terminator
LabelOnlyTexts ==
    <<<<"f", " ", "g", "\n">>, <<"f", " ", "g", ";">>,
      <<"f", " ", "{", "\n", "f", " ", "g", "\n", "}", "\n">>>>

\* the texts into struct { F map[string]string } and, F taking the place of
\* the map's elements, struct { F map[string]map[string]string }
LabelOnlyRuns ==
    {[family |-> "labelonly", k |-> k, text |-> LabelOnlyTexts[k],
      typ |-> StructOf(<<SF(<<"F">>, <<>>, MapOf(T("string"), el))>>),
      before |-> <<IF set THEN [nil |-> FALSE, m |-> (<<"g">> :> ZeroOf(el))] ELSE NilMap>>] :
        k \in DOMAIN LabelOnlyTexts, set \in BOOLEAN,
        el \in {T("string"), MapOf(T("string"), T("string"))}}

\* `a 1 b 2`, `a 1 b 2 a 7` and `a 1; b 2` on one line, at top level and as
\* the one line of the block of `f`
OneLiners ==
    <<[line |-> <<"a", " ", "1", " ", "b", " ", "2", "\n">>, separated |-> FALSE],
      [line |-> <<"a", " ", "1", " ", "b", " ", "2", " ", "a", " ", "7", "\n">>, separated |-> FALSE],
      [line |-> <<"a", " ", "1", ";", " ", "b", " ", "2", "\n">>, separated |-> TRUE]>>

\* struct { A, B int64; F map[string]int64 }
OneLineT ==
    StructOf(<<SF(<<"A">>, <<>>, T("int64")), SF(<<"B">>, <<>>, T("int64")),
               SF(<<"F">>, <<>>, MapOf(T("string"), T("int64")))>>)

OneLineRuns ==
    {[family |-> "oneline", k |-> k, inBlock |-> b,
      text |-> IF b THEN <<"f", " ", "{", "\n">> \o OneLiners[k].line \o <<"}", "\n">>
               ELSE OneLiners[k].line,
      typ |-> OneLineT,
      before |-> ZeroOf(OneLineT)] :
        k \in DOMAIN OneLiners, b \in BOOLEAN}

\* the blocks decoded into a map, by type of the map's values: three inner
\* parameters, the third a second one of the name a, the values they denote,
\* and the parameters that have no operand
InnerKinds ==
    <<[elem |-> T("int64"),
       lines |-> <<<<"a", " ", "1", "\n">>, <<"b", " ", "2", "\n">>, <<"a", " ", "x", " ", "3", "\n">>>>,
       vals |-> <<I64(1), I64(2), I64(3)>>, bad |-> {}],
      [elem |-> SliceOf(T("string")),
       lines |-> <<<<"a", " ", "[">> \o Quoted(<<"x">>) \o <<"]", "\n">>,
                   <<"b", " ", "[">> \o Quoted(<<"y">>) \o <<",", " ">> \o Quoted(<<"x">>) \o <<"]", "\n">>,
                   <<"a", " ", "[", "]", "\n">>>>,
       vals |-> <<[nil |-> FALSE, s |-> <<<<"x">>>>], [nil |-> FALSE, s |-> <<<<"y">>, <<"x">>>>],
                  [nil |-> FALSE, s |-> <<>>]>>, bad |-> {}],
      [elem |-> StructOf(<<SF(<<"S">>, <<>>, T("string"))>>),
       lines |-> <<<<"a", " ", "{", "\n", "s", " ">> \o Quoted(<<"x">>) \o <<"\n", "}", "\n">>,
                   <<"b", " ", "{", "\n", "s", " ">> \o Quoted(<<"y">>) \o <<"\n", "}", "\n">>,
                   <<"a", " ", "{", "\n", "}", "\n">>>>,
       vals |-> <<<<<<"x">>>>, <<<<"y">>>>, <<<<>>>>>>, bad |-> {}],
      [elem |-> T("int64"),
       lines |-> <<<<"a", " ", "1", "\n">>, <<"b", " ", "g", "\n">>, <<"a", " ", "3", "\n">>>>,
       vals |-> <<I64(1), Zero64, I64(3)>>, bad |-> {2}]>>

\* the names of the three inner parameters
InnerNames == <<<<"a">>, <<"b">>, <<"a">>>>

\* `m { <lines> }` into struct { M map[string]elem }, M nil or holding the key w
BlockMapRuns ==
    {[family |-> "blockmap", kind |-> k, sel |-> sel,
      text |-> <<"m", " ", "{", "\n">> \o Concat([i \in DOMAIN sel |-> InnerKinds[k].lines[sel[i]]])
                   \o <<"}", "\n">>,
      typ |-> StructOf(<<SF(<<"M">>, <<>>, MapOf(T("string"), InnerKinds[k].elem))>>),
      before |-> <<IF set THEN [nil |-> FALSE, m |-> (<<"w">> :> ZeroOf(InnerKinds[k].elem))]
                   ELSE NilMap>>] :
        k \in DOMAIN InnerKinds, sel \in SeqsOver(1..3, MaxLines), set \in BOOLEAN}

\* the files an include splices in: g.conf includes e.conf between its two
\* parameters
\* g.conf:  x 1               h.conf:  y 3        e.conf:  x 5
\*          include "e.conf"           v 4
\*          y 2
sGConf == <<"g", ".", "c", "o", "n", "f">>
sHConf == <<"h", ".", "c", "o", "n", "f">>
sEConf == <<"e", ".", "c", "o", "n", "f">>

SpliceFiles ==
    (sGConf :> <<"x", " ", "1", "\n">> \o IncludeLine(<<sEConf>>) \o <<"y", " ", "2", "\n">>)
    @@ (sHConf :> <<"y", " ", "3", "\n", "v", " ", "4", "\n">>)
    @@ (sEConf :> <<"x", " ", "5", "\n">>)

\* the lines of the file given to Decode and the parameters each stands for,
\* by name, value and file
SpliceLines ==
    <<[line |-> <<"x", " ", "9", "\n">>,
       params |-> <<[name |-> "x", val |-> 9, file |-> sConf]>>],
      [line |-> IncludeLine(<<sGConf, sHConf>>),
       params |-> <<[name |-> "x", val |-> 1, file |-> sGConf],
                    [name |-> "x", val |-> 5, file |-> sEConf],
                    [name |-> "y", val |-> 2, file |-> sGConf],
                    [name |-> "y", val |-> 3, file |-> sHConf],
                    [name |-> "v", val |-> 4, file |-> sHConf]>>],
      [line |-> <<"w", " ", "7", "\n">>,
       params |-> <<[name |-> "w", val |-> 7, file |-> sConf]>>],
      [line |-> <<"y", " ", "8", "\n">>,
       params |-> <<[name |-> "y", val |-> 8, file |-> sConf]>>]>>

SpliceNames == <<"x", "y", "v", "w">>

SpliceT ==
    StructOf(<<SF(<<"X">>, <<>>, T("int64")), SF(<<"Y">>, <<>>, T("int64")),
               SF(<<"V">>, <<>>, T("int64")), SF(<<"W">>, <<>>, T("int64"))>>)

SpliceRuns ==
    {[family |-> "splice", sel |-> sel,
      text |-> Concat([i \in DOMAIN sel |-> SpliceLines[sel[i]].line]),
      typ |-> SpliceT,
      before |-> ZeroOf(SpliceT)] :
        sel \in SeqsOver(DOMAIN SpliceLines, MaxLines)}

\* a record of two strings, the type of both fields of ReplaceT: TLS takes
\* blocks, Store is tagged nogroup and takes labelled parameters
PairT ==
    StructOf(<<SF(<<"C", "e", "r", "t">>, <<>>, T("string")),
               SF(<<"K", "e", "y">>, <<>>, T("string"))>>)

ReplaceT ==
    StructOf(<<SF(<<"T", "L", "S">>, <<>>, PairT),
               SF(<<"S", "t", "o", "r", "e">>, <<",", "n", "o", "g", "r", "o", "u", "p">>, PairT)>>)

\* the lines of the runs: the field of ReplaceT the line is for, the fields
\* of the record it mentions with their values, and whether it is a block
ReplaceLines ==
    <<[line |-> <<"t", "l", "s", " ", "{", " ", "c", "e", "r", "t", " ", "\"", "a", "\"", " ", "}", "\n">>,
       at |-> 1, set |-> (1 :> <<"a">>), block |-> TRUE],
      [line |-> <<"t", "l", "s", " ", "{", " ", "k", "e", "y", " ", "\"", "b", "\"", " ", "}", "\n">>,
       at |-> 1, set |-> (2 :> <<"b">>), block |-> TRUE],
      [line |-> <<"t", "l", "s", " ", "{", " ", "}", "\n">>,
       at |-> 1, set |-> EmptyMap, block |-> TRUE],
      [line |-> <<"s", "t", "o", "r", "e", " ", "c", "e", "r", "t", " ", "\"", "c", "\"", "\n">>,
       at |-> 2, set |-> (1 :> <<"c">>), block |-> FALSE],
      [line |-> <<"s", "t", "o", "r", "e", " ", "k", "e", "y", " ", "\"", "d", "\"", "\n">>,
       at |-> 2, set |-> (2 :> <<"d">>), block |-> FALSE]>>

ReplaceRuns ==
    {[family |-> "replace", sel |-> sel,
      text |-> Concat([i \in DOMAIN sel |-> ReplaceLines[sel[i]].line]),
      typ |-> ReplaceT,
      before |-> b] :
        sel \in SeqsOver(DOMAIN ReplaceLines, MaxLines),
        b \in {ZeroOf(ReplaceT), <<<<<<"p">>, <<"q">>>>, <<<<"r">>, <<"s">>>>>>}}

\* decode.go:450-454: whether the decoder of the run has includes enabled,
\* and the files that exist beside the file given to Decode
RunIncludes(run) == run.family = "splice"
RunFiles(run) ==
    IF RunIncludes(run) THEN (sConf :> run.text) @@ SpliceFiles ELSE (sConf :> run.text)

\* the blocks of the first kind into struct { M map[int64]int64 }
IntKeyRuns ==
    {[family |-> "intkey", kind |-> 1, sel |-> sel,
      text |-> <<"m", " ", "{", "\n">> \o Concat([i \in DOMAIN sel |-> InnerKinds[1].lines[sel[i]]])
                   \o <<"}", "\n">>,
      typ |-> StructOf(<<SF(<<"M">>, <<>>, MapOf(T("int64"), T("int64")))>>),
      before |-> <<NilMap>>] :
        sel \in SeqsOver(1..3, MaxLines)}

FileRuns ==
    SizeRuns \cup DurationRuns \cup ArrayRuns \cup NonSliceRuns \cup ExcludeRuns
    \cup SecondRuns \cup LabelOnlyRuns \cup OneLineRuns \cup BlockMapRuns \cup IntKeyRuns
    \cup SpliceRuns \cup ReplaceRuns

InitFile ==
    /\ pc = "parse"
    /\ \E run \in FileRuns :
          /\ given = run
          /\ d = [name |-> sConf, includes |-> RunIncludes(run), expands |-> EmptyMap,
                  environ |-> EmptyMap]
          /\ typ = run.typ
          /\ cfg0 = run.before
          /\ cfg = run.before
          /\ fs = RunFiles(run)
          /\ \E r \in {newParser(sConf, run.text, <<>>, RunIncludes(run), EmptyMap, <<>>)} :
                /\ p = r
                /\ errs = r.errs
    /\ nn = <<>>
    /\ idx = 1
    /\ ret = NotReturned

SpecFile == InitFile /\ [][NextFile]_vars

\* limb j of m * 2^(10 * k), by shifting the bits of m
ShiftLimb(m, k, j) ==
    LET s == 10 * k - 16 * j
    IN IF s >= 16 THEN 0
       ELSE IF s >= 0 THEN (m % 2 ^ (16 - s)) * 2 ^ s
       ELSE IF -s >= 31 THEN 0
       ELSE (m \div 2 ^ (-s)) % Base

\* n * 1024^k on 64 bits, n of magnitude m
Times1024(neg, m, k) ==
    IF neg THEN Neg64([j \in 1..4 |-> ShiftLimb(m, k, j - 1)])
    ELSE [j \in 1..4 |-> ShiftLimb(m, k, j - 1)]

\* n * 1024^k is within -2^63 .. 2^63 - 1
Fits64(neg, m, k) ==
    \/ 63 - 10 * k >= 31
    \/ m < 2 ^ (63 - 10 * k)
    \/ neg /\ m = 2 ^ (63 - 10 * k)

SizeRun == given.family = "size"

\* C14: a size literal <n><unit>, the unit one of B, KB, MB, GB, TB, decodes
\* into a 64-bit integer field as n * 1024^k, k = 0..4 in that order, for
\* every n whose product fits in 64 bits; Decode returns no error.
C14_SizeValue ==
    (pc = "done" /\ SizeRun /\ Fits64(given.neg, SmallNum(given.num, 0), given.unit - 1)) =>
        /\ ret = NoErr
        /\ cfg = <<Times1024(given.neg, SmallNum(given.num, 0), given.unit - 1)>>

\* `val 50MB` or `val 2KB` has replaced the 5 the caller had set
C14_Witness ==
    /\ pc = "done" /\ SizeRun /\ ret = NoErr
    /\ \/ /\ given.text = <<"v", "a", "l", " ", "5", "0", "M", "B", "\n">>
          /\ cfg = <<I64(52428800)>>
          /\ cfg0 = <<I64(5)>>
       \/ /\ given.text = <<"v", "a", "l", " ", "2", "K", "B", "\n">>
          /\ cfg = <<I64(2048)>>
          /\ cfg0 = <<I64(5)>>

CompositeRun == given.family = "duration" /\ given.pairs > 1

\* C15: a run of number+unit pairs written without whitespace, such as
\* 1h30m, is one Duration literal whose text is the whole run, so that
\* `hour_half 1h30m` parses without a syntax error into one parameter.
C15_CompositeDuration ==
    (pc \in {"parsed", "done"} /\ CompositeRun) =>
        /\ errs = <<>>
        /\ ret = NoErr
        /\ Len(nn) = 1
        /\ nn[1].Value = MkLit(Pos(sConf, 1, 11), "DurationLit", given.lit)

ArrayRun == given.family = "array"

\* every item of the array of the run decodes as the type of the elements
ItemsDecode == \A i \in DOMAIN given.sel : given.sel[i] \notin ArrayKinds[given.kind].bad

\* C16: an array of n items decoded into a field of slice type leaves in the
\* field exactly n elements in the order of the items, element i the value
\* item i decodes to as the element type, whatever the field held before;
\* an array decoded into a field that is no slice is a decode error.
C16_ArrayInOrder ==
    /\ (pc = "done" /\ ArrayRun /\ ItemsDecode) =>
          /\ ret = NoErr
          /\ Len(nn[1].Value.Items) = Len(given.sel)
          /\ cfg = <<[nil |-> FALSE,
                      s |-> [i \in DOMAIN given.sel |-> ArrayKinds[given.kind].vals[given.sel[i]]]]>>
          /\ \A i \in DOMAIN cfg[1].s :
                cfg[1].s[i] = decodeValue(d, typ.fields[1].Type.elem, nn[1].Value.Items[i], <<>>).pv.x
    /\ (pc = "done" /\ given.family = "nonslice") =>
          /\ ret.kind = "DecodeError"
          /\ ret.Param = <<"v", "a", "l">>
          /\ ret.Type = typ.fields[1].Type

\* `val ["a", "b"]` has replaced the one element the field held
C16_Witness ==
    /\ pc = "done" /\ ArrayRun /\ ret = NoErr
    /\ given.text = <<"v", "a", "l", " ", "[">> \o Quoted(<<"a">>) \o <<",", " ">>
                        \o Quoted(<<"b">>) \o <<"]", "\n">>
    /\ cfg0 = <<[nil |-> FALSE, s |-> <<<<>>>>]>>
    /\ cfg = <<[nil |-> FALSE, s |-> <<<<"a">>, <<"b">>>>]>>

ExcludeRun == given.family = "exclude"

\* the value of field i of the struct of the run once its lines are decoded
ExcludeExpected(i) ==
    IF typ.fields[i].Tag = <<"a">> /\ 1 \in Range(given.sel) THEN <<"x">>
    ELSE IF typ.fields[i].Tag = <<"b">> /\ 2 \in Range(given.sel) THEN <<"y">>
    ELSE cfg0[i]

\* C17: a field whose tag name is - is bound to no parameter, and every
\* other field of the struct, declared before or after it, is resolved by
\* its exact name to its own storage: Decode returns no error, the fields
\* named in the file hold the values written for them, the others are as
\* they were.
C17_ExcludedField ==
    (pc = "done" /\ ExcludeRun) =>
        /\ ret = NoErr
        /\ cfg = [i \in 1..3 |-> ExcludeExpected(i)]

SecondRun == given.family = "second"

\* the second identifier of the run, at line 1 column 3
SecondIdent == SecondIdents[given.k].second

\* C19: a parameter written as two identifiers, the second exactly true or
\* false and followed by a terminator, is parsed as a parameter without
\* label whose value is the Bool literal of that text; a second identifier
\* followed by an operand stays the label and the operand is the value.
C19_BoolOrLabel ==
    (pc \in {"parsed", "done"} /\ SecondRun) =>
        /\ ret = NoErr /\ errs = <<>>
        /\ Len(nn) = 1
        /\ nn[1].Name = MkName(Pos(sConf, 1, 1), <<"f">>)
        /\ IF SecondIdents[given.k].node = "none"
           THEN /\ nn[1].Label = Nil
                /\ nn[1].Value = MkLit(Pos(sConf, 1, 3), "BoolLit", SecondIdent)
           ELSE /\ nn[1].Label = MkName(Pos(sConf, 1, 3), SecondIdent)
                /\ nn[1].Value # Nil
                /\ nn[1].Value.node = SecondIdents[given.k].node
                /\ nn[1].Value.node = "lit" =>
                      nn[1].Value = MkLit(Pos(sConf, 1, 4 + Len(SecondIdent)),
                                          SecondIdents[given.k].lit[1],
                                          SecondIdents[given.k].lit[2])

\* `f true` is the parameter f with the value true and has set F, and
\* `f true 1` has put 1 under the key true
C19_Witness ==
    /\ pc = "done" /\ SecondRun /\ ret = NoErr
    /\ \/ /\ given.text = <<"f", " ", "t", "r", "u", "e", "\n">>
          /\ nn = <<MkParam(Pos(sConf, 1, 1), MkName(Pos(sConf, 1, 1), <<"f">>), Nil,
                            MkLit(Pos(sConf, 1, 3), "BoolLit", sTrue))>>
          /\ cfg0 = <<FALSE>> /\ cfg = <<TRUE>>
       \/ /\ given.text = <<"f", " ", "t", "r", "u", "e", " ", "1", "\n">>
          /\ nn[1].Label.Value = sTrue
          /\ cfg0 = <<NilMap>>
          /\ cfg = <<[nil |-> FALSE, m |-> (sTrue :> I64(1))]>>

\* the parameter has an operand, and so has every parameter within it
RECURSIVE HasOperands(_)
HasOperands(n) ==
    CASE n.node = "param" -> n.Value # Nil /\ HasOperands(n.Value)
      [] n.node = "block" -> \A k \in DOMAIN n.Params : HasOperands(n.Params[k])
      [] n.node = "array" -> \A k \in DOMAIN n.Items : HasOperands(n.Items[k])
      [] OTHER -> TRUE

\* C20: every parameter of the nodes a parse without error returns has a
\* value, a literal, a block or an array: a name and a second identifier
\* other than true and false followed by a terminator is a syntax error,
\* not a parameter without value.
C20_ParamsHaveValues ==
    (pc = "parsed" /\ ret = NoErr) => \A i \in DOMAIN nn : HasOperands(nn[i])

\* the run is a line of parameters with no terminator between them
Unseparated == given.family = "oneline" /\ ~OneLiners[given.k].separated

\* C21: two parameters written on one line with no ; or newline between
\* them are reported as a syntax error, at top level as inside a block.
C21_TerminatorRequired ==
    (pc = "parsed" /\ Unseparated) => (errs # <<>> /\ ret # NoErr)

BlockMapRun == given.family = "blockmap"

\* the names of the inner parameters of the block of the run
InnerNamesOf == {InnerNames[given.sel[i]] : i \in DOMAIN given.sel}

\* the place in the block of the last parameter of the name
LastOf(name) ==
    CHOOSE i \in DOMAIN given.sel :
        /\ InnerNames[given.sel[i]] = name
        /\ \A j \in DOMAIN given.sel : InnerNames[given.sel[j]] = name => j <= i

\* C22: a block decoded into a map with string keys yields a map with one
\* entry for each name among the inner parameters and no other, under that
\* name, its value the operand of the last parameter of the name decoded as
\* the type of the map's values; a map whose keys are not strings is a
\* decode error.
C22_BlockIntoMap ==
    /\ (pc = "done" /\ BlockMapRun) =>
          /\ ret = NoErr
          /\ ~cfg[1].nil
          /\ DOMAIN cfg[1].m = InnerNamesOf
          /\ \A name \in InnerNamesOf \cap DOMAIN cfg[1].m :
                given.sel[LastOf(name)] \notin InnerKinds[given.kind].bad =>
                    cfg[1].m[name] = InnerKinds[given.kind].vals[given.sel[LastOf(name)]]
    /\ (pc = "done" /\ given.family = "intkey") =>
          /\ ret.kind = "DecodeError"
          /\ ret.Type = typ.fields[1].Type
          /\ cfg = cfg0

\* the run is a file of parameters and include statements
SpliceRun == given.family = "splice"

\* the parameters the lines of the run stand for, in order
SpliceParams == Concat([i \in DOMAIN given.sel |-> SpliceLines[given.sel[i]].params])

\* the value the last parameter of a name has, 0 when there is none
LastValue(params, name) ==
    IF \E i \in DOMAIN params : params[i].name = name
    THEN params[CHOOSE i \in DOMAIN params :
                    /\ params[i].name = name
                    /\ \A j \in DOMAIN params : params[j].name = name => j <= i].val
    ELSE 0

\* the node is the parameter prm: its name, its integer and its file
IsParam(node, prm) ==
    /\ node.node = "param"
    /\ node.Name.Value = <<prm.name>>
    /\ node.pos.name = prm.file
    /\ node.Label = Nil
    /\ node.Value.node = "lit"
    /\ node.Value.Type = "IntLit"
    /\ ParseInt(node.Value.Value, 64).v = I64(prm.val)

\* C28: the parameters of the files of an include statement stand in the
\* list parse returns where the statement stands, file after file as listed
\* and in the order of each file, a file included by an included file where
\* its own statement stands; and the decode gives every field the value of
\* the last parameter of its name in that order, so that a parameter after
\* the include overrides an included one and an included one overrides a
\* parameter before the include.
C28_SpliceOrder ==
    /\ (pc = "parsed" /\ SpliceRun /\ ret = NoErr) =>
          /\ Len(nn) = Len(SpliceParams)
          /\ \A i \in DOMAIN nn \cap DOMAIN SpliceParams : IsParam(nn[i], SpliceParams[i])
    /\ (pc = "done" /\ SpliceRun /\ errs = <<>>) =>
          /\ ret = NoErr
          /\ cfg = [i \in DOMAIN SpliceNames |-> I64(LastValue(SpliceParams, SpliceNames[i]))]

\* `x 9`, the include of g.conf and h.conf, `y 8`: x is e.conf's, y the
\* last line's, v is h.conf's
C28_Witness ==
    /\ pc = "done"
    /\ SpliceRun
    /\ given.sel = <<1, 2, 4>>
    /\ ret = NoErr
    /\ cfg = <<I64(5), I64(8), I64(4), Zero64>>
    /\ p.opened = <<sGConf, sEConf, sHConf>>

\* the run is a file of blocks for the field TLS and of labelled parameters
\* for the field Store
ReplaceRun == given.family = "replace"

\* the record v after the line l: a block gives a new record, zero but for
\* the fields the block mentions; a labelled parameter of a nogroup field
\* changes the field it names and no other
AfterLine(v, l) ==
    [v EXCEPT ![l.at] =
        [i \in DOMAIN @ |-> IF i \in DOMAIN l.set THEN l.set[i]
                            ELSE IF l.block THEN <<>> ELSE @[i]]]

RECURSIVE AfterLines(_, _, _)
AfterLines(v, sel, k) ==
    IF k > Len(sel) THEN v ELSE AfterLines(AfterLine(v, ReplaceLines[sel[k]]), sel, k + 1)

\* C30: a block for a field of record type replaces the field by a record
\* built anew from the block, so that what an earlier block or the caller
\* had set and the block does not mention is zero afterwards, while the
\* labelled parameters of a nogroup field each set one field of the record
\* and leave the others as they were.
C30_BlockReplaces ==
    (pc = "done" /\ ReplaceRun) =>
        /\ ret = NoErr
        /\ cfg = AfterLines(given.before, given.sel, 1)

\* after `tls { cert "a" }` and `tls { key "b" }` Cert is empty; after
\* `store cert "c"` Store.Key is what the caller had set
C30_Witness ==
    /\ pc = "done"
    /\ ReplaceRun
    /\ given.sel = <<1, 2, 4>>
    /\ given.before # ZeroOf(ReplaceT)
    /\ ret = NoErr
    /\ cfg = <<<<<<>>, <<"b">>>>, <<<<"c">>, <<"s">>>>>>

----------------------------------------------------------------------------
(* The parse of a file whose include statements name files that include    *)
(* one another: a.conf and b.conf include each other, c.conf and d.conf    *)
(* both include e.conf, s.conf includes itself, z.conf does not exist.     *)

sCConf == <<"c", ".", "c", "o", "n", "f">>
sDConf == <<"d", ".", "c", "o", "n", "f">>
sSConf == <<"s", ".", "c", "o", "n", "f">>

\* a.conf:  include "b.conf"        b.conf:  include "a.conf"
\*          x 1                              y 2
\* c.conf:  include "e.conf"        d.conf:  include "e.conf"
\* e.conf:  z 3                     s.conf:  include "s.conf"
ChainFiles ==
    (sAConf :> IncludeLine(<<sBConf>>) \o <<"x", " ", "1", "\n">>)
    @@ (sBConf :> IncludeLine(<<sAConf>>) \o <<"y", " ", "2", "\n">>)
    @@ (sCConf :> IncludeLine(<<sEConf>>))
    @@ (sDConf :> IncludeLine(<<sEConf>>))
    @@ (sEConf :> <<"z", " ", "3", "\n">>)
    @@ (sSConf :> IncludeLine(<<sSConf>>))

\* the files named by the statements of the file given to Decode; the first
\* statement is the parameter `w 0`
ChainIncluded ==
    <<<<>>, <<sAConf>>, <<sBConf>>, <<sCConf, sDConf>>, <<sEConf>>, <<sSConf>>,
      <<sZConf, sEConf>>>>

ChainLine(k) ==
    IF ChainIncluded[k] = <<>> THEN <<"w", " ", "0", "\n">> ELSE IncludeLine(ChainIncluded[k])

\* the longest file given to Decode, in statements
MaxIncludes == 2

ChainText(sel) == Concat([i \in DOMAIN sel |-> ChainLine(sel[i])])

InitChain ==
    /\ pc = "parse"
    /\ d = [name |-> sConf, includes |-> TRUE, expands |-> EmptyMap, environ |-> EmptyMap]
    /\ \E sel \in SeqsOver(DOMAIN ChainIncluded, MaxIncludes) :
          /\ given = sel
          /\ fs = (sConf :> ChainText(sel)) @@ ChainFiles
          /\ \E r \in {newParser(sConf, ChainText(sel), <<>>, TRUE, EmptyMap, <<>>)} :
                /\ p = r
                /\ errs = r.errs
    /\ typ = ConfigT
    /\ cfg0 = ZeroOf(ConfigT)
    /\ cfg = cfg0
    /\ nn = <<>>
    /\ idx = 1
    /\ ret = NotReturned

SpecChain == InitChain /\ [][NextParse]_vars

\* no name was handed to os.Open twice
OpenedOnce(log) == \A i, j \in DOMAIN log : log[i] = log[j] => i = j

\* the statement at hand, at line k, names first a file that is registered
SecondInclude(k) ==
    /\ IncludeAt /\ p.pos.line = k
    /\ ChainIncluded[given[k]] # <<>>
    /\ ChainIncluded[given[k]][1] \in DOMAIN p.inctab

\* the step reports `already included from` the file that registered fname,
\* at a position of the file by
ReportsIncluded(fname, by) ==
    fname \in DOMAIN p'.inctab /\ Reports(<<"already included from ", p'.inctab[fname]>>, by)

\* once registered a name stays registered, by the same file
RegistryKept ==
    \A f \in DOMAIN p.inctab : f \in DOMAIN p'.inctab /\ p'.inctab[f] = p.inctab[f]

\* C24 as stated: no name is opened twice, and every include of a name that
\* is registered reports `already included from` the file that registered
\* it and opens nothing: the second statement for a name in the file given
\* to Decode, the include of a.conf by b.conf or of b.conf by a.conf, the
\* second include of e.conf by c.conf or d.conf, and the include of s.conf
\* by s.conf; the step of an include statement ends past the statement.
C24_AlreadyIncludedAlways ==
    [][/\ OpenedOnce(p'.opened)
       /\ RegistryKept
       /\ IncludeAt => p'.r > p.r
       /\ \A k \in DOMAIN given :
             SecondInclude(k) =>
                 /\ ReportsIncluded(ChainIncluded[given[k]][1], sConf)
                 /\ Opens = {}
       /\ sAConf \in Opens =>
             ReportsIncluded(sAConf, sBConf) \/ ReportsIncluded(sBConf, sAConf)
       /\ sCConf \in Opens =>
             ReportsIncluded(sEConf, sCConf) \/ ReportsIncluded(sEConf, sDConf)
       /\ sSConf \in Opens => ReportsIncluded(sSConf, sSConf)]_vars

\* C24: no name is opened twice, and every include of a name that is
\* registered opens nothing and reports `already included from` the file
\* that registered it, or `cannot include self` when the statement is in the
\* file of that name; the step of an include statement ends past the
\* statement.
C24_AlreadyIncluded ==
    [][/\ OpenedOnce(p'.opened)
       /\ RegistryKept
       /\ IncludeAt => p'.r > p.r
       /\ \A k \in DOMAIN given :
             SecondInclude(k) =>
                 /\ ReportsIncluded(ChainIncluded[given[k]][1], sConf)
                 /\ Opens = {}
       /\ sAConf \in Opens =>
             ReportsIncluded(sAConf, sBConf) \/ ReportsIncluded(sBConf, sAConf)
       /\ sCConf \in Opens =>
             ReportsIncluded(sEConf, sCConf) \/ ReportsIncluded(sEConf, sDConf)
       /\ sSConf \in Opens =>
             /\ Reports(<<"cannot include self">>, sSConf)
             /\ p'.inctab[sSConf] = sConf]_vars

\* `include ["c.conf", "d.conf"]` has opened c.conf, e.conf and d.conf, each
\* once, and d.conf's include of e.conf was reported
C24_Witness ==
    /\ pc = "parsed"
    /\ given = <<4>>
    /\ p.opened = <<sCConf, sEConf, sDConf>>
    /\ p.inctab[sEConf] = sCConf
    /\ \E i \in DOMAIN errs :
          errs[i].msg = <<"already included from ", sCConf>> /\ errs[i].pos.name = sDConf
    /\ ret # NoErr

----------------------------------------------------------------------------
(* The parser over arbitrary token streams: the file is a run of tokens,   *)
(* brackets unbalanced, commas and literals astray, include followed by    *)
(* anything.  From every token of the file one turn of the loop of parse,  *)
(* one turn of the loop of list and one advance are taken.                 *)

StrayTokens ==
    << <<"a">>, sInclude, <<"1">>, <<"\n">>, <<",">>, <<"{">>, <<"}">>, <<"[">>, <<"]">> >>

\* the longest file, in tokens
MaxTokens == 3

StrayText(sel) == Concat([i \in DOMAIN sel |-> StrayTokens[sel[i]] \o <<" ">>])

InitStray ==
    /\ pc = "parse"
    /\ d = [name |-> sConf, includes |-> TRUE, expands |-> EmptyMap, environ |-> EmptyMap]
    /\ \E sel \in SeqsOver(DOMAIN StrayTokens, MaxTokens) :
          /\ given = sel
          /\ fs = (sConf :> StrayText(sel))
          /\ \E r \in {newParser(sConf, StrayText(sel), <<>>, TRUE, EmptyMap, <<>>)} :
                /\ p = r
                /\ errs = r.errs
    /\ typ = ConfigT
    /\ cfg0 = ZeroOf(ConfigT)
    /\ cfg = cfg0
    /\ nn = <<>>
    /\ idx = 1
    /\ ret = NotReturned

\* the follow sets advance is called with (parser.go:98, 135, 146, 174)
Follows == {{"_Semi"}, {"_Rbrace", "_Semi"}}

\* the separator list is called with for each end (parser.go:95, 113)
SepOf(end) == IF end = "_Rbrace" THEN "_Semi" ELSE "_Comma"

\* parser.go:78-85: one turn of the loop of list
listTurn(pr, end) == listNext(listItem(pr, end), SepOf(end), end)

\* parser.next: the parser is taken to the next token of the file
StrayNext ==
    /\ pc = "parse"
    /\ p.tok # "_EOF"
    /\ \E r \in {next(p)} :
          /\ p' = r
          /\ errs' = r.errs
    /\ UNCHANGED <<pc, d, typ, cfg, cfg0, nn, idx, ret, fs, given>>

ListTurn ==
    /\ pc = "parse"
    /\ \E end \in {"_Rbrace", "_Rbrack"} :
          /\ p.tok # end
          /\ p.tok # "_EOF"
          /\ \E r \in {listTurn(p, end)} :
                /\ p' = r
                /\ errs' = r.errs
    /\ UNCHANGED <<pc, d, typ, cfg, cfg0, nn, idx, ret, fs, given>>

AdvanceTurn ==
    /\ pc = "parse"
    /\ \E follow \in Follows :
          \E r \in {advance(p, follow)} :
              /\ p' = r
              /\ errs' = r.errs
    /\ UNCHANGED <<pc, d, typ, cfg, cfg0, nn, idx, ret, fs, given>>

NextStray == ParseStep \/ ParseReturn \/ StrayNext \/ ListTurn \/ AdvanceTurn

SpecStray == InitStray /\ [][NextStray]_vars

\* the step has consumed a token of a file that has an end
Consumed == p'.r0 > p.r0 /\ p'.r0 <= Len(p'.buf) + 1

\* C25: every turn of the loop of parse and of the loop of list, taken
\* before the end of the file, consumes a token, and advance stops at a
\* token of its follow set or at the end of the file, having gone back over
\* nothing: the loops end on every file.
C25_ParseTerminates ==
    [][(pc = "parse" /\ pc' = "parse") =>
          /\ (p.tok # "_EOF" /\ p' = parseTurn(p)) => Consumed
          /\ \A end \in {"_Rbrace", "_Rbrack"} :
                (p.tok \notin {end, "_EOF"} /\ p' = listTurn(p, end)) => Consumed
          /\ \A follow \in Follows :
                p' = advance(p, follow) =>
                    /\ p'.tok \in follow \cup {"_EOF"}
                    /\ p'.r0 >= p.r0
                    /\ p.tok \in follow \cup {"_EOF"} => p'.r0 = p.r0]_vars

\* parse has returned a failure for the file `] , }`
C25_Witness ==
    /\ pc = "parsed"
    /\ given = <<9, 5, 7>>
    /\ ret # NoErr
    /\ p.tok = "_EOF"

----------------------------------------------------------------------------
(* The scanner alone: next called until the end of the input, over texts   *)
(* made of lines with and without comments.                                *)

\* scanner.next, called on a scanner that is not at the end of its input
ScanNext ==
    /\ pc = "scan"
    /\ p.tok # "_EOF"
    /\ \E r \in {next(p)} :
          /\ p' = r
          /\ errs' = r.errs
    /\ idx' = idx + 1
    /\ UNCHANGED <<pc, d, typ, cfg, cfg0, nn, ret, fs, given>>

\* the scanner has returned _EOF
ScanEnd ==
    /\ pc = "scan"
    /\ p.tok = "_EOF"
    /\ pc' = "scanned"
    /\ UNCHANGED <<d, typ, cfg, cfg0, nn, idx, errs, ret, p, fs, given>>

NextScan == ScanNext \/ ScanEnd

\* the lines of the scanner runs, each as written and with its comment
\* deleted up to the newline that ends it; the # of the last is in a string
CommentPool ==
    <<[with |-> <<"a", " ", "1", "\n">>, without |-> <<"a", " ", "1", "\n">>],
      [with |-> <<"a", " ", "1", " ", "#", " ", "c", "\n">>, without |-> <<"a", " ", "1", " ", "\n">>],
      [with |-> <<"#", " ", "c", "\n">>, without |-> <<"\n">>],
      [with |-> <<"b", " ", "{", "\n">>, without |-> <<"b", " ", "{", "\n">>],
      [with |-> <<"}", "#", "c", "\n">>, without |-> <<"}", "\n">>],
      [with |-> <<"s", " ">> \o Quoted(<<"x", "#", "y">>) \o <<"\n">>,
       without |-> <<"s", " ">> \o Quoted(<<"x", "#", "y">>) \o <<"\n">>]>>

\* the text of the lines sel as written, and with the comments deleted
Commented(sel) == Concat([i \in DOMAIN sel |-> CommentPool[sel[i]].with])
Uncommented(sel) == Concat([i \in DOMAIN sel |-> CommentPool[sel[i]].without])

InitScan ==
    /\ pc = "scan"
    /\ d = [name |-> sConf, includes |-> FALSE, expands |-> EmptyMap, environ |-> EmptyMap]
    /\ \E sel \in SeqsOver(DOMAIN CommentPool, MaxLines) :
          /\ given = sel
          /\ fs = (sConf :> Commented(sel))
          /\ \E r \in {newScanner(newSource(sConf, Commented(sel), <<>>))} :
                /\ p = r
                /\ errs = r.errs
    /\ typ = ConfigT
    /\ cfg0 = ZeroOf(ConfigT)
    /\ cfg = cfg0
    /\ nn = <<>>
    /\ idx = 1
    /\ ret = NotReturned

SpecScan == InitScan /\ [][NextScan]_vars

\* a token: its kind, the type of a literal and its text
Token(s) == [tok |-> s.tok, typ |-> s.typ, lit |-> s.lit]

\* the tokens next returns from s on, up to _EOF
RECURSIVE TokensFrom(_)
TokensFrom(s) ==
    IF s.tok = "_EOF" THEN <<Token(s)>> ELSE <<Token(s)>> \o TokensFrom(next(s))

\* the tokens of a text
Tokens(text) == TokensFrom(newScanner(newSource(sConf, text, <<>>)))

TokenAt(toks, k) == IF k \in DOMAIN toks THEN toks[k] ELSE [tok |-> "", typ |-> "", lit |-> <<>>]

\* C18: deleting the comments of a text, each from its # up to but not
\* including the newline that ends it, does not change the tokens the
\* scanner produces: the token the scanner holds after k calls on the text
\* as written is token k of the text without its comments.
C18_CommentsTransparent ==
    (pc = "scan") => Token(p) = TokenAt(Tokens(Uncommented(given)), idx)


----------------------------------------------------------------------------
(* scanner.next a rune at a time.  The loops of next that wait for one     *)
(* rune, the comment loop and the loop of string, take one turn a step, so *)
(* that a loop that does not end is a behaviour and not a value.  d holds  *)
(* the local nlsemi of next.  Files end with or without a newline, inside  *)
(* a comment or inside a string literal.                                   *)

RunePool ==
    << <<"a", " ", "1", "\n">>,                \* a 1
       <<"#", "c", "\n">>,                     \* #c
       <<"#", "c">>,                           \* #c, the line not ended
       <<"\"", "x", "\"", "\n">>,              \* "x"
       <<"\"", "x">>,                          \* "x, the line not ended
       <<"\"", "\\", "\"">>,                   \* "\", the line not ended
       <<"@", "}">>,                           \* @}
       <<"\n">> >>

\* the longest file, in pieces of RunePool
MaxChunks == 3

RuneText(sel) == Concat([i \in DOMAIN sel |-> RunePool[sel[i]]])

InitRune ==
    /\ pc = "next"
    /\ d = [nlsemi |-> FALSE]
    /\ \E sel \in SeqsOver(DOMAIN RunePool, MaxChunks) :
          /\ given = sel
          /\ fs = (sConf :> RuneText(sel))
          /\ p = newSource(sConf, RuneText(sel), <<>>)
                     @@ [nlsemi |-> FALSE, pos |-> NoPos, tok |-> "", typ |-> "",
                         lit |-> <<>>]
    /\ errs = <<>>
    /\ typ = ConfigT
    /\ cfg0 = ZeroOf(ConfigT)
    /\ cfg = cfg0
    /\ nn = <<>>
    /\ idx = 0
    /\ ret = NotReturned

\* scanner.go:118-119: next is called, for the first token or after a token
\* that is not EOF
RuneNext ==
    /\ pc = "next"
    /\ p.tok # "_EOF"
    /\ d' = [nlsemi |-> p.nlsemi]
    /\ p' = [p EXCEPT !.nlsemi = FALSE]
    /\ pc' = "redo"
    /\ UNCHANGED <<typ, cfg, cfg0, nn, idx, errs, ret, fs, given>>

\* scanner.go:121-130: from the label redo to the first rune that is not
\* skipped
redoRune(s, nlsemi) ==
    skipSpace(srcGet([s EXCEPT !.tok = "", !.lit = <<>>, !.typ = ""]), nlsemi)

\* the runes scanToken ends a token at, or reports, without a loop that
\* waits for a rune
PlainRune(r) == isLetter(r) \/ isDigit(r) \/ r \in {"-", EOFRune, "\n", ";", ",", "{", "}", "[", "]"}

\* scanner.go:121-201: from the label redo to the return of next, to a goto
\* redo, or into the comment loop or the loop of string
RuneRedo ==
    /\ pc = "redo"
    /\ \E r \in {redoRune(p, d.nlsemi)} :
          \/ /\ r.ch = "#"
             /\ p' = r
             /\ pc' = "comment"
             /\ UNCHANGED <<idx, errs>>
          \/ /\ r.ch = "\""
             /\ p' = srcGet(srcStartLit([r EXCEPT !.pos = srcGetpos(r)]))
             /\ pc' = "string"
             /\ UNCHANGED <<idx, errs>>
          \/ /\ PlainRune(r.ch)
             /\ \E t \in {scanToken([r EXCEPT !.pos = srcGetpos(r)], d.nlsemi)} :
                   /\ p' = t
                   /\ errs' = t.errs
             /\ idx' = idx + 1
             /\ pc' = "next"
          \/ /\ r.ch \notin {"#", "\""}
             /\ ~PlainRune(r.ch)
             /\ \E t \in {srcErr([r EXCEPT !.pos = srcGetpos(r)], <<"unexpected token ", r.ch>>)} :
                   /\ p' = t
                   /\ errs' = t.errs
             /\ pc' = "redo"
             /\ UNCHANGED idx
    /\ UNCHANGED <<d, typ, cfg, cfg0, nn, ret, fs, given>>

\* scanner.go:133-136: one turn of the comment loop, or the goto redo
RuneComment ==
    /\ pc = "comment"
    /\ IF p.ch # "\n"
       THEN p' = srcGet(p) /\ pc' = "comment"
       ELSE p' = p /\ pc' = "redo"
    /\ UNCHANGED <<d, typ, cfg, cfg0, nn, idx, errs, ret, fs, given>>

\* scanner.go:91-107: one turn of the loop of string; out is whether the
\* turn leaves the loop
stringTurn(s) ==
    IF s.ch = "\"" THEN [s |-> s, out |-> TRUE]
    ELSE IF s.ch = "\\"
    THEN [s |-> IF srcGet(s).ch = "\"" THEN srcGet(srcGet(s)) ELSE srcGet(s), out |-> FALSE]
    ELSE IF s.ch = "\n"
    THEN [s |-> srcErr(s, <<"unexpected newline in string">>), out |-> TRUE]
    ELSE [s |-> srcGet(s), out |-> FALSE]

\* scanner.go:90-114: one turn of the loop of string, and past the loop the
\* return of string and of next
RuneString ==
    /\ pc = "string"
    /\ \E t \in {stringTurn(p)} :
          IF t.out
          THEN /\ p' = stringEnd(t.s)
               /\ errs' = t.s.errs
               /\ idx' = idx + 1
               /\ pc' = "next"
          ELSE /\ p' = t.s
               /\ pc' = "string"
               /\ UNCHANGED <<idx, errs>>
    /\ UNCHANGED <<d, typ, cfg, cfg0, nn, ret, fs, given>>

\* next has returned EOF
RuneEnd ==
    /\ pc = "next"
    /\ p.tok = "_EOF"
    /\ pc' = "scanned"
    /\ UNCHANGED <<d, typ, cfg, cfg0, nn, idx, errs, ret, p, fs, given>>

NextRune == RuneNext \/ RuneRedo \/ RuneComment \/ RuneString \/ RuneEnd

SpecRune == InitRune /\ [][NextRune]_vars

\* next is one call: once called it runs on
SpecRuneFair == SpecRune /\ WF_vars(NextRune)

\* a loop of next is at a turn that leaves the scanner as it is and does not
\* leave the loop: the loop runs for ever
Spinning ==
    \/ pc = "comment" /\ p.ch # "\n" /\ srcGet(p) = p
    \/ pc = "string" /\ ~stringTurn(p).out /\ stringTurn(p).s = p

\* C26: on every file next returns after finitely many steps, and after
\* finitely many calls it returns EOF.
C26_NextTerminates == <>(pc = "scanned")

----------------------------------------------------------------------------
(* The scanner over lines that end after every kind of token: next called  *)
(* until the end of the input, over texts made of tokens, newlines and     *)
(* comments.                                                               *)

LinePool ==
    << <<"a", " ">>, <<"1", " ">>, Quoted(<<"x">>), <<"}">>, <<"]">>, <<"{">>, <<"[">>,
       <<",">>, <<";">>, <<"\n">>, <<"#", "c", "\n">> >>

LineText(sel) == Concat([i \in DOMAIN sel |-> LinePool[sel[i]]])

InitLines ==
    /\ pc = "scan"
    /\ d = [name |-> sConf, includes |-> FALSE, expands |-> EmptyMap, environ |-> EmptyMap]
    /\ \E sel \in SeqsOver(DOMAIN LinePool, MaxChunks) :
          /\ given = sel
          /\ fs = (sConf :> LineText(sel))
          /\ \E r \in {newScanner(newSource(sConf, LineText(sel), <<>>))} :
                /\ p = r
                /\ errs = r.errs
    /\ typ = ConfigT
    /\ cfg0 = ZeroOf(ConfigT)
    /\ cfg = cfg0
    /\ nn = <<>>
    /\ idx = 1
    /\ ret = NotReturned

SpecLines == InitLines /\ [][NextScan]_vars

\* the offset of the newline that ends the line, when from offset k on the
\* line holds nothing but blanks and a comment; 0 when it holds a token
RECURSIVE LineEndFrom(_, _, _)
LineEndFrom(buf, k, inComment) ==
    IF k > Len(buf) THEN 0
    ELSE IF buf[k] = "\n" THEN k
    ELSE IF inComment \/ buf[k] \in {" ", "\t", "\r"} THEN LineEndFrom(buf, k + 1, inComment)
    ELSE IF buf[k] = "#" THEN LineEndFrom(buf, k + 1, TRUE)
    ELSE 0

\* the tokens a newline ends a statement after
NlTokens == {"_Name", "_Literal", "_Rbrace", "_Rbrack"}

\* the token s holds is a _Semi made of a newline
FromNewline(s) == s.tok = "_Semi" /\ s.r > 0 /\ s.buf[s.r] = "\n"

\* C27: the newline that ends the line of the token before it is the next
\* token, a _Semi, when that token is a name, a literal, } or ]; after any
\* other token, and at the start of the input, the next token is not made
\* of a newline, so that blank lines never give two _Semi in a row.
C27_ImplicitSemi ==
    [][(pc = "scan" /\ pc' = "scan") =>
          /\ idx = 1 => ~FromNewline(p)
          /\ p.tok \in NlTokens =>
                \A k \in {LineEndFrom(p.buf, p.r + 1, FALSE)} \ {0} :
                    FromNewline(p') /\ p'.r = k
          /\ p.tok \notin NlTokens => ~FromNewline(p')]_vars

====
